---------------------------- MODULE Spec2Model ----------------------------
(***************************************************************************)
(* Consumption forecasting of the receipt store (app/recommendation_      *)
(* service.py): purchase history extraction, the consumption pattern       *)
(* estimator, the inclusion filter and the shopping list generator.        *)
(*                                                                         *)
(* Numbers.  Python floats are modelled by exact rationals <<n, d>> in     *)
(* lowest terms with d > 0.  Time is counted in whole days, so that        *)
(* total_seconds() / 86400 is an integer number of days; receipts and the  *)
(* clock fall on a weekly grid.  The decay rates are ln(2)/7 and ln(3/2)/7 *)
(* per day (0.099 and 0.058), for which exp(-decay_rate * days) is a       *)
(* rational power on that grid; math.exp underflows to 0.0 beyond the      *)
(* double range.                                                           *)
(***************************************************************************)
EXTENDS Integers, Sequences, FiniteSets, Bags, TLC

VARIABLES
    now,            \* the server clock, datetime.now(timezone.utc), in days
    receipt_items,  \* table receipt_items joined with receipts: a bag of rows
    request,        \* the call in progress, or NoRequest
    response,       \* what the call returned, or NoResponse
    access_token,   \* AHClient._access_token, or None
    remote,         \* the receipts the remote API lists, newest first
    receipts,       \* table receipts: the ids of the stored receipts
    remote_calls,   \* the calls of the remote API made for the request
    sync,           \* the frame of SyncService.sync_receipts, or NoSync
    product_cache,  \* table product_cache: product_id -> its row
    token_file,     \* the tokens in TOKEN_FILE, or None when it is absent
    instance,       \* AHClient._instance: the tokens of the client, or None
    in_flight       \* a request that holds a client and awaits the remote

vars == <<now, receipt_items, request, response,
          access_token, remote, receipts, remote_calls, sync,
          product_cache, token_file, instance, in_flight>>

\* the product cache, the token file and the clients of requests in flight
store_vars == <<product_cache, token_file, instance, in_flight>>

\* the state of the receipts client, of the remote API and of a sync
client_vars == <<access_token, remote, receipts, remote_calls, sync, store_vars>>

\* Python's None, for an absent number or name (both are tuples here)
None == <<>>
NoRequest == [op |-> "idle"]
NoResponse == [kind |-> "none"]
NoSync == [pc |-> "idle"]

\* the falsy id of a receipt summary that carries none
NoId == 0

-----------------------------------------------------------------------------
(* Rational arithmetic standing for float arithmetic.                      *)

Abs(x) == IF x < 0 THEN -x ELSE x

RECURSIVE GCD(_, _)
GCD(a, b) == IF b = 0 THEN a ELSE GCD(b, a % b)

Rat(n, d) ==
    LET s == IF d < 0 THEN -1 ELSE 1
        g == GCD(Abs(n), Abs(d))
    IN  <<(s * n) \div g, (s * d) \div g>>

Zero == <<0, 1>>
One == <<1, 1>>
FromInt(i) == <<i, 1>>

RMul(x, y) ==
    LET g1 == GCD(Abs(x[1]), y[2])
        g2 == GCD(Abs(y[1]), x[2])
    IN  <<(x[1] \div g1) * (y[1] \div g2), (x[2] \div g2) * (y[2] \div g1)>>

RDiv(x, y) == RMul(x, IF y[1] < 0 THEN <<-y[2], -y[1]>> ELSE <<y[2], y[1]>>)

RAdd(x, y) ==
    LET g == GCD(x[2], y[2])
    IN  Rat(x[1] * (y[2] \div g) + y[1] * (x[2] \div g), (x[2] \div g) * y[2])

RNeg(x) == <<-x[1], x[2]>>
RSub(x, y) == RAdd(x, RNeg(y))

Floor(x) == x[1] \div x[2]

\* x <= y, comparing the integer parts first and then the fractional parts
RLe(x, y) ==
    IF Floor(x) # Floor(y) THEN Floor(x) < Floor(y)
    ELSE (x[1] - Floor(x) * x[2]) * y[2] <= (y[1] - Floor(y) * y[2]) * x[2]

RLt(x, y) == ~RLe(y, x)
RMax(x, y) == IF RLe(y, x) THEN x ELSE y
RMin(x, y) == IF RLe(x, y) THEN x ELSE y

RECURSIVE RPow(_, _)
RPow(x, k) ==
    IF k = 0 THEN One
    ELSE IF k < 0 THEN RPow(<<x[2], x[1]>>, -k)
    ELSE RMul(x, RPow(x, k - 1))

-----------------------------------------------------------------------------
(* Python built-ins used by the service.                                   *)

RECURSIVE Pow10(_)
Pow10(k) == IF k = 0 THEN 1 ELSE 10 * Pow10(k - 1)

\* round(x, ndigits): to the nearest multiple of 10^-ndigits, ties to even
round(x, ndigits) ==
    LET scaled == RMul(x, FromInt(Pow10(ndigits)))
        q == Floor(scaled)
        r == scaled[1] - q * scaled[2]
        up == \/ 2 * r > scaled[2]
              \/ 2 * r = scaled[2] /\ q % 2 = 1
    IN  Rat(IF up THEN q + 1 ELSE q, Pow10(ndigits))

\* math.ceil(x)
ceil(x) == -((-x[1]) \div x[2])

RECURSIVE sum(_)
sum(xs) == IF xs = <<>> THEN Zero ELSE RAdd(Head(xs), sum(Tail(xs)))

\* the place of pair p = <<key, item>> in a list sorted by key: after every
\* pair whose key is not larger (the sort is stable)
RECURSIVE InsertByKey(_, _)
InsertByKey(p, s) ==
    IF s = <<>> THEN <<p>>
    ELSE IF RLt(p[1], Head(s)[1]) THEN <<p>> \o s
    ELSE <<Head(s)>> \o InsertByKey(p, Tail(s))

RECURSIVE SortPairs(_)
SortPairs(s) ==
    IF s = <<>> THEN <<>>
    ELSE InsertByKey(s[Len(s)], SortPairs(SubSeq(s, 1, Len(s) - 1)))

\* sorted(items, key=...) and list.sort(key=...), keys being the list of
\* the items' keys: a stable ascending sort
sorted(items, keys) ==
    LET s == SortPairs([i \in 1..Len(items) |-> <<keys[i], items[i]>>])
    IN  [i \in 1..Len(items) |-> s[i][2]]

\* statistics.median(xs) of a non-empty list
median(xs) ==
    LET s == sorted(xs, xs)
        n == Len(s)
    IN  IF n % 2 = 1 THEN s[(n + 1) \div 2]
        ELSE RDiv(RAdd(s[n \div 2], s[n \div 2 + 1]), FromInt(2))


-----------------------------------------------------------------------------
(* Product names are strings of characters; Chars lists the characters in  *)
(* code point order, which is the order of ORDER BY product_name.          *)

Chars ==
    <<"B", "E", "K", "L", "M", "R", "_", "a", "b", "d", "e", "k", "l", "m", "o", "r", "s",
      "É", "é">>

CodePoint(c) == CHOOSE i \in 1..Len(Chars) : Chars[i] = c

\* lower() of SQLite on one character: only ASCII letters are folded
SqliteLowerChar(c) ==
    CASE c = "B" -> "b" [] c = "E" -> "e" [] c = "K" -> "k"
      [] c = "L" -> "l" [] c = "M" -> "m" [] c = "R" -> "r" [] OTHER -> c

\* str.lower() on one character: every letter is folded
LowerChar(c) == IF c = "É" THEN "é" ELSE SqliteLowerChar(c)

lower(name) == [i \in 1..Len(name) |-> LowerChar(name[i])]

SqliteLower(name) == [i \in 1..Len(name) |-> SqliteLowerChar(name[i])]

RECURSIVE StrLt(_, _)
StrLt(a, b) ==
    IF b = <<>> THEN FALSE
    ELSE IF a = <<>> THEN TRUE
    ELSE IF Head(a) # Head(b) THEN CodePoint(Head(a)) < CodePoint(Head(b))
    ELSE StrLt(Tail(a), Tail(b))

\* needle in haystack (Python's `in` on strings)
Contains(haystack, needle) ==
    \E i \in 0..(Len(haystack) - Len(needle)) :
        SubSeq(haystack, i + 1, i + Len(needle)) = needle

\* SQL: text LIKE pattern, where % stands for any characters and _ for one
RECURSIVE Like(_, _)
Like(text, pattern) ==
    IF pattern = <<>> THEN text = <<>>
    ELSE IF Head(pattern) = "%"
         THEN \/ Like(text, Tail(pattern))
              \/ text # <<>> /\ Like(Tail(text), pattern)
    ELSE /\ text # <<>>
         /\ Head(pattern) = "_" \/ Head(pattern) = Head(text)
         /\ Like(Tail(text), Tail(pattern))

\* product_name.ilike(f"%{pattern}%"), which SQLite evaluates as
\* lower(product_name) LIKE lower('%pattern%')
ilike(name, pattern) ==
    Like(SqliteLower(name), <<"%">> \o SqliteLower(pattern) \o <<"%">>)

-----------------------------------------------------------------------------
(* get_product_purchase_history                                            *)

\* ORDER BY product_name, transaction_moment
RowLe(r1, r2) ==
    \/ StrLt(r1.product_name, r2.product_name)
    \/ /\ r1.product_name = r2.product_name
       /\ r1.transaction_moment <= r2.transaction_moment

\* query.all(): the rows of the bag in the order of ORDER BY.  SQL leaves the
\* order of rows with equal keys open; one order is fixed here.
RECURSIVE query_all(_)
query_all(rows) ==
    IF BagToSet(rows) = {} THEN <<>>
    ELSE LET first == CHOOSE r \in BagToSet(rows) :
                          \A r2 \in BagToSet(rows) : RowLe(r, r2)
         IN  <<first>> \o query_all(rows (-) SetToBag({first}))

\* PurchaseEvent(date=..., quantity=row.quantity or 1.0, unit_price=...)
PurchaseEvent(row) ==
    [date |-> row.transaction_moment,
     quantity |-> IF row.quantity = None \/ row.quantity = Zero
                  THEN One ELSE row.quantity,
     unit_price |-> row.unit_price,
     product_id |-> row.product_id]

\* the loop over the rows: a dict in insertion order, as a list of entries
RECURSIVE GroupByName(_, _)
GroupByName(results, products) ==
    IF results = <<>> THEN products
    ELSE LET row == Head(results)
             name == row.product_name
             known == \E i \in 1..Len(products) : products[i].name = name
             grown == IF known THEN products
                      ELSE Append(products, [name |-> name, purchases |-> <<>>])
         IN  GroupByName(Tail(results),
                 [i \in 1..Len(grown) |->
                     IF grown[i].name = name
                     THEN [grown[i] EXCEPT !.purchases = Append(@, PurchaseEvent(row))]
                     ELSE grown[i]])

\* the extraction keeping only the products above the threshold
get_product_purchase_history_above(db, product_name, min_purchases) ==
    LET matching == IF product_name = None \/ product_name = <<>> THEN db
                    ELSE [r \in {x \in BagToSet(db) : ilike(x.product_name, product_name)}
                             |-> db[r]]
        products == GroupByName(query_all(matching), <<>>)
    IN  IF min_purchases > 1
        THEN SelectSeq(products, LAMBDA e : Len(e.purchases) > min_purchases)
        ELSE products

get_product_purchase_history(db, product_name, min_purchases) ==
    LET matching == IF product_name = None \/ product_name = <<>> THEN db
                    ELSE [r \in {x \in BagToSet(db) : ilike(x.product_name, product_name)}
                             |-> db[r]]
        products == GroupByName(query_all(matching), <<>>)
    IN  IF min_purchases > 1
        THEN SelectSeq(products, LAMBDA e : Len(e.purchases) >= min_purchases)
        ELSE products


-----------------------------------------------------------------------------
(* calculate_exponential_weight, calculate_confidence,                     *)
(* calculate_consumption_pattern                                           *)

\* the tests' "Weekly shopping": receipts are a whole number of weeks apart
ShoppingCycleDays == 7

\* The decay rates of the model, per day.
DecayRates == {"ln(2)/7", "ln(3/2)/7"}

\* exp(-decay_rate * 7)
ExpNegWeek(decay_rate) == IF decay_rate = "ln(2)/7" THEN <<1, 2>> ELSE <<2, 3>>

\* the number of weeks from which on exp(-decay_rate * days) is 0.0 in
\* double precision: 2^-1075 and (2/3)^1838 lie below the smallest double
UnderflowWeeks(decay_rate) == IF decay_rate = "ln(2)/7" THEN 1075 ELSE 1838

\* math.exp(-decay_rate * days_ago), days_ago a whole number of weeks
calculate_exponential_weight(days_ago, decay_rate) ==
    LET weeks == days_ago \div ShoppingCycleDays
    IN  IF weeks >= UnderflowWeeks(decay_rate) THEN Zero
        ELSE RPow(ExpNegWeek(decay_rate), weeks)

\* the confidence with a count factor that does not saturate
calculate_confidence_unsaturated(purchase_count, median_interval, days_since_last) ==
    LET count_factor == Rat(purchase_count, 10)
        recency_ratio == RDiv(days_since_last, median_interval)
        recency_factor ==
            IF RLt(Zero, median_interval)
            THEN IF RLt(One, recency_ratio)
                 THEN RMax(Zero, RSub(One, RMul(RSub(recency_ratio, One), <<3, 10>>)))
                 ELSE One
            ELSE <<1, 2>>
        confidence == RMul(RMul(count_factor, recency_factor), <<9, 10>>)
    IN  round(RMax(Zero, RMin(One, confidence)), 2)

\* the confidence with a full recency factor when there is no interval
calculate_confidence_norecency(purchase_count, median_interval, days_since_last) ==
    LET count_factor == RMin(One, Rat(purchase_count, 10))
        recency_ratio == RDiv(days_since_last, median_interval)
        recency_factor ==
            IF RLt(Zero, median_interval)
            THEN IF RLt(One, recency_ratio)
                 THEN RMax(Zero, RSub(One, RMul(RSub(recency_ratio, One), <<3, 10>>)))
                 ELSE One
            ELSE One
        confidence == RMul(RMul(count_factor, recency_factor), <<9, 10>>)
    IN  round(RMax(Zero, RMin(One, confidence)), 2)

calculate_confidence(purchase_count, median_interval, days_since_last) ==
    LET count_factor == RMin(One, Rat(purchase_count, 10))
        recency_ratio == RDiv(days_since_last, median_interval)
        recency_factor ==
            IF RLt(Zero, median_interval)
            THEN IF RLt(One, recency_ratio)
                 THEN RMax(Zero, RSub(One, RMul(RSub(recency_ratio, One), <<3, 10>>)))
                 ELSE One
            ELSE <<1, 2>>
        confidence == RMul(RMul(count_factor, recency_factor), <<9, 10>>)
    IN  round(RMax(Zero, RMin(One, confidence)), 2)

\* the sentinel of days_until_needed
SentinelDays == 9999

\* "Assume at least weekly"
WeeklyFloor == 7

\* the single-purchase estimate without "at least weekly"
SinglePurchaseInterval_nofloor(days_since) == days_since

\* "Only one purchase - estimate based on time since purchase"
SinglePurchaseInterval(days_since) == RMax(days_since, FromInt(WeeklyFloor))

\* days until needed taken to be the stock itself
DaysUntilNeeded_fromstock(estimated_inventory, consumption_rate) ==
    IF RLt(Zero, consumption_rate)
    THEN RMin(FromInt(SentinelDays), estimated_inventory)
    ELSE FromInt(SentinelDays)

\* days until needed without the cap of the quotient
DaysUntilNeeded_uncapped(estimated_inventory, consumption_rate) ==
    IF RLt(Zero, consumption_rate)
    THEN RDiv(estimated_inventory, consumption_rate)
    ELSE FromInt(SentinelDays)

\* "Calculate days until needed (when inventory hits zero)"
DaysUntilNeeded(estimated_inventory, consumption_rate) ==
    IF RLt(Zero, consumption_rate)
    THEN RMin(FromInt(SentinelDays), RDiv(estimated_inventory, consumption_rate))
    ELSE FromInt(SentinelDays)

\* the median interval taken to be the weighted average
MedianInterval_weighted(intervals, weighted_avg_interval) == weighted_avg_interval

\* "Median interval (more robust to outliers)"; with one purchase, the
\* estimate of the single purchase
MedianInterval(intervals, weighted_avg_interval) ==
    IF intervals # <<>>
    THEN median([k \in 1..Len(intervals) |-> intervals[k][1]])
    ELSE weighted_avg_interval

calculate_consumption_pattern(product_name, purchases, decay_rate, now_) ==
    LET sorted_purchases ==
            sorted(purchases, [i \in 1..Len(purchases) |-> FromInt(purchases[i].date)])
        purchase_count == Len(sorted_purchases)
        quantities == [i \in 1..purchase_count |-> sorted_purchases[i].quantity]
        total_quantity == sum(quantities)
        median_quantity == IF quantities # <<>> THEN median(quantities) ELSE Zero
        priced == SelectSeq(sorted_purchases, LAMBDA p : p.unit_price # None)
        prices == [i \in 1..Len(priced) |-> priced[i].unit_price]
        median_price == IF prices # <<>> THEN median(prices) ELSE Zero
        \* intervals[i - 1] = (interval_days, weight) of purchases i - 1 and i
        intervals ==
            [k \in 1..(purchase_count - 1) |->
                LET prev_date == sorted_purchases[k].date
                    curr_date == sorted_purchases[k + 1].date
                IN  <<FromInt(curr_date - prev_date),
                      calculate_exponential_weight(now_ - curr_date, decay_rate)>>]
        weighted_sum == sum([k \in 1..Len(intervals) |->
                                RMul(intervals[k][1], intervals[k][2])])
        weight_sum == sum([k \in 1..Len(intervals) |-> intervals[k][2]])
        last_purchase == sorted_purchases[purchase_count]
        days_since_last == FromInt(now_ - last_purchase.date)
        weighted_avg_interval ==
            IF intervals # <<>>
            THEN IF RLt(Zero, weight_sum) THEN RDiv(weighted_sum, weight_sum) ELSE Zero
            ELSE SinglePurchaseInterval(days_since_last)
        median_interval == MedianInterval(intervals, weighted_avg_interval)
        consumption_rate ==
            IF RLt(Zero, weighted_avg_interval)
            THEN RDiv(median_quantity, weighted_avg_interval) ELSE Zero
        estimated_inventory ==
            RMax(Zero, RSub(median_quantity, RMul(days_since_last, consumption_rate)))
        days_until_needed == DaysUntilNeeded(estimated_inventory, consumption_rate)
        confidence == calculate_confidence(purchase_count, median_interval, days_since_last)
        \* "Get product_id from most recent purchase"
        product_id == IF sorted_purchases # <<>>
                      THEN sorted_purchases[purchase_count].product_id ELSE None
    IN  [product_name |-> product_name,
         product_id |-> product_id,
         purchase_count |-> purchase_count,
         total_quantity_purchased |-> total_quantity,
         median_quantity_per_purchase |-> median_quantity,
         median_interval_days |-> median_interval,
         weighted_avg_interval_days |-> weighted_avg_interval,
         consumption_rate_per_day |-> consumption_rate,
         last_purchase_date |-> last_purchase.date,
         days_since_last_purchase |-> days_since_last,
         estimated_inventory |-> estimated_inventory,
         days_until_needed |-> days_until_needed,
         median_price |-> median_price,
         confidence |-> confidence]


-----------------------------------------------------------------------------
(* should_include_product, get_consumption_patterns, generate_shopping_list *)

\* the filter with the purchase-count boundary excluded
should_include_product_exclusive(pattern, min_purchases, max_avg_interval, max_days_since_last) ==
    IF pattern.purchase_count <= min_purchases THEN FALSE
    ELSE IF RLt(FromInt(max_avg_interval), pattern.median_interval_days) THEN FALSE
    ELSE IF RLt(FromInt(max_days_since_last), pattern.days_since_last_purchase) THEN FALSE
    ELSE TRUE

should_include_product(pattern, min_purchases, max_avg_interval, max_days_since_last) ==
    IF pattern.purchase_count < min_purchases THEN FALSE
    ELSE IF RLt(FromInt(max_avg_interval), pattern.median_interval_days) THEN FALSE
    ELSE IF RLt(FromInt(max_days_since_last), pattern.days_since_last_purchase) THEN FALSE
    ELSE TRUE

\* patterns.sort(key=lambda p: p.days_until_needed)
SortPatterns(patterns) ==
    sorted(patterns, [i \in 1..Len(patterns) |-> patterns[i].days_until_needed])

\* the loop over all_products.items(): the pattern of every product
AllPatterns(all_products, decay_rate, now_) ==
    [i \in 1..Len(all_products) |->
        calculate_consumption_pattern(all_products[i].name, all_products[i].purchases,
                                      decay_rate, now_)]

\* the response counting every pattern as analyzed
ConsumptionPatternsResponse_countall(all_patterns, now_, min_purchases, max_avg_interval, max_days_since_last) ==
    LET included(p) == should_include_product(p, min_purchases, max_avg_interval,
                                              max_days_since_last)
        patterns == SelectSeq(all_patterns, included)
        filtered_count == Len(all_patterns) - Len(patterns)
    IN  [generated_at |-> now_,
         products |-> SortPatterns(patterns),
         total_products_analyzed |-> Len(all_patterns),
         products_filtered_out |-> filtered_count,
         filter_criteria |-> [min_purchases |-> min_purchases,
                              max_avg_interval_days |-> max_avg_interval,
                              max_days_since_last |-> max_days_since_last]]

\* the patterns that pass the filter, sorted, and the count of the others
ConsumptionPatternsResponse(all_patterns, now_, min_purchases, max_avg_interval, max_days_since_last) ==
    LET included(p) == should_include_product(p, min_purchases, max_avg_interval,
                                              max_days_since_last)
        patterns == SelectSeq(all_patterns, included)
        filtered_count == Len(all_patterns) - Len(patterns)
    IN  [generated_at |-> now_,
         products |-> SortPatterns(patterns),
         total_products_analyzed |-> Len(patterns),
         products_filtered_out |-> filtered_count,
         filter_criteria |-> [min_purchases |-> min_purchases,
                              max_avg_interval_days |-> max_avg_interval,
                              max_days_since_last |-> max_days_since_last]]

get_consumption_patterns(db, now_, decay_rate, min_purchases, max_avg_interval, max_days_since_last) ==
    ConsumptionPatternsResponse(
        AllPatterns(get_product_purchase_history(db, None, 1), decay_rate, now_),
        now_, min_purchases, max_avg_interval, max_days_since_last)

\* urgency with the horizon itself excluded from "needed"
UrgencyLevel_strict(days_until_needed, days_ahead) ==
    IF RLt(days_until_needed, FromInt(days_ahead)) THEN "needed"
    ELSE IF RLe(days_until_needed, FromInt(days_ahead * 2)) THEN "soon"
    ELSE "later"

\* "Determine urgency"
UrgencyLevel(days_until_needed, days_ahead) ==
    IF RLe(days_until_needed, FromInt(days_ahead)) THEN "needed"
    ELSE IF RLe(days_until_needed, FromInt(days_ahead * 2)) THEN "soon"
    ELSE "later"

\* "Skip low confidence predictions only if min_confidence is specified"
SkipLowConfidence(pattern, min_confidence) ==
    min_confidence # None /\ RLt(pattern.confidence, min_confidence)

ShoppingListItem(pattern, days_ahead) ==
    LET suggested_qty ==
            IF ceil(pattern.median_quantity_per_purchase) > 1
            THEN ceil(pattern.median_quantity_per_purchase) ELSE 1
    IN  [product_name |-> pattern.product_name,
         product_id |-> pattern.product_id,
         suggested_quantity |-> suggested_qty,
         urgency |-> UrgencyLevel(pattern.days_until_needed, days_ahead),
         estimated_days_until_needed |-> round(pattern.days_until_needed, 1),
         estimated_inventory |-> round(pattern.estimated_inventory, 1),
         median_price |-> round(pattern.median_price, 2),
         estimated_cost |-> round(RMul(pattern.median_price, FromInt(suggested_qty)), 2),
         confidence |-> pattern.confidence,
         last_purchase_date |-> pattern.last_purchase_date,
         purchase_count |-> pattern.purchase_count]

\* the items sorted latest first
SortItems_descending(items) ==
    sorted(items, [i \in 1..Len(items) |-> RNeg(items[i].estimated_days_until_needed)])

\* needed_items.sort(key=lambda x: x.estimated_days_until_needed)
SortItems(items) ==
    sorted(items, [i \in 1..Len(items) |-> items[i].estimated_days_until_needed])

\* estimated_total = sum(item.estimated_cost for item in needed_items)
EstimatedTotal(needed_items) ==
    round(sum([i \in 1..Len(needed_items) |-> needed_items[i].estimated_cost]), 2)

\* the loop over patterns_response.products: the item of every pattern
\* that is not skipped
ListItems(products, days_ahead, min_confidence) ==
    LET kept == SelectSeq(products, LAMBDA p : ~SkipLowConfidence(p, min_confidence))
    IN  [i \in 1..Len(kept) |-> ShoppingListItem(kept[i], days_ahead)]

\* the items of one urgency, in the order of the loop
WithUrgency(items, urgency) == SelectSeq(items, LAMBDA x : x.urgency = urgency)

\* the recommendation with the total taken over both lists
ShoppingListRecommendation_bothlists(needed_items, might_need_soon, patterns_response, now_, days_ahead) ==
    [generated_at |-> now_,
     planning_horizon_days |-> days_ahead,
     needed_items |-> needed_items,
     might_need_soon |-> might_need_soon,
     estimated_total |-> EstimatedTotal(needed_items \o might_need_soon),
     items_analyzed |-> patterns_response.total_products_analyzed,
     items_filtered_out |-> patterns_response.products_filtered_out]

ShoppingListRecommendation(needed_items, might_need_soon, patterns_response, now_, days_ahead) ==
    [generated_at |-> now_,
     planning_horizon_days |-> days_ahead,
     needed_items |-> needed_items,
     might_need_soon |-> might_need_soon,
     estimated_total |-> EstimatedTotal(needed_items),
     items_analyzed |-> patterns_response.total_products_analyzed,
     items_filtered_out |-> patterns_response.products_filtered_out]

\* generate_shopping_list from the loop on
Recommend(items, patterns_response, now_, days_ahead) ==
    ShoppingListRecommendation(SortItems(WithUrgency(items, "needed")),
                               SortItems(WithUrgency(items, "soon")),
                               patterns_response, now_, days_ahead)

\* the recommendation with the skipped patterns counted as filtered out
RecommendFrom_countskipped(patterns_response, now_, days_ahead, min_confidence) ==
    LET items == ListItems(patterns_response.products, days_ahead, min_confidence)
        skipped == Len(patterns_response.products) - Len(items)
    IN  Recommend(items,
                  [patterns_response EXCEPT
                      !.products_filtered_out = @ + skipped],
                  now_, days_ahead)

\* generate_shopping_list from the response of get_consumption_patterns on
RecommendFrom(patterns_response, now_, days_ahead, min_confidence) ==
    Recommend(ListItems(patterns_response.products, days_ahead, min_confidence),
              patterns_response, now_, days_ahead)

generate_shopping_list(db, now_, days_ahead, min_confidence, decay_rate, min_purchases, max_avg_interval, max_days_since_last) ==
    RecommendFrom(get_consumption_patterns(db, now_, decay_rate, min_purchases,
                                           max_avg_interval, max_days_since_last),
                  now_, days_ahead, min_confidence)

-----------------------------------------------------------------------------
(* get_product_consumption_detail, _generate_prediction_explanation        *)

\* f"{x:.1f}" and the like: the number to so many decimals
Format(x, decimals) == round(x, decimals)

\* the restocking line with three tiers only
RestockingLine_threetiers(pattern) ==
    IF RLe(pattern.days_until_needed, Zero)
    THEN [message |-> "You likely need to restock NOW", days |-> None]
    ELSE IF RLe(pattern.days_until_needed, FromInt(4))
    THEN [message |-> "Estimated to need restocking in {:.1f} days",
          days |-> Format(pattern.days_until_needed, 1)]
    ELSE [message |-> "Estimated to need restocking in about {:.0f} days",
          days |-> Format(pattern.days_until_needed, 0)]

\* the restocking line of the explanation
RestockingLine(pattern) ==
    IF RLe(FromInt(SentinelDays), pattern.days_until_needed)
    THEN [message |-> "Unable to predict when you'll need more", days |-> None]
    ELSE IF RLe(pattern.days_until_needed, Zero)
    THEN [message |-> "You likely need to restock NOW", days |-> None]
    ELSE IF RLe(pattern.days_until_needed, FromInt(4))
    THEN [message |-> "Estimated to need restocking in {:.1f} days",
          days |-> Format(pattern.days_until_needed, 1)]
    ELSE [message |-> "Estimated to need restocking in about {:.0f} days",
          days |-> Format(pattern.days_until_needed, 0)]

\* the lines of the explanation, each with the number it reports
generate_prediction_explanation(pattern, now_) ==
    [purchases |-> pattern.purchase_count,
     every_days |-> Format(pattern.median_interval_days, 1),
     typical_quantity |-> Format(pattern.median_quantity_per_purchase, 1),
     consumption_rate |-> Format(pattern.consumption_rate_per_day, 3),
     last_purchased_days_ago |-> Format(pattern.days_since_last_purchase, 1),
     remaining_inventory |-> Format(pattern.estimated_inventory, 2),
     restocking |-> RestockingLine(pattern),
     confidence_percent |-> Format(RMul(pattern.confidence, FromInt(100)), 0)]

\* "Find exact or best match": the loop over products.items(), which breaks
\* at an exact match
RECURSIVE FindMatch(_, _, _)
FindMatch(entries, product_name, best_match) ==
    IF entries = <<>> THEN [exact_match |-> None, best_match |-> best_match]
    ELSE LET entry == Head(entries)
         IN  IF lower(entry.name) = lower(product_name)
             THEN [exact_match |-> entry, best_match |-> best_match]
             ELSE IF Contains(lower(entry.name), lower(product_name))
             THEN FindMatch(Tail(entries), product_name,
                      IF best_match = None
                         \/ Len(entry.purchases) > Len(best_match.purchases)
                      THEN entry ELSE best_match)
             ELSE FindMatch(Tail(entries), product_name, best_match)

\* matched = exact_match or best_match, or else "Just use first result"
Matched(products, product_name) ==
    LET found == FindMatch(products, product_name, None)
    IN  IF found.exact_match # None THEN found.exact_match
        ELSE IF found.best_match # None THEN found.best_match
        ELSE products[1]

\* the detail of the matched entry, given its pattern
DetailOf(matched, pattern, now_) ==
    [product_name |-> matched.name,
     purchase_history |->
         sorted(matched.purchases,
                [i \in 1..Len(matched.purchases) |->
                    FromInt(-matched.purchases[i].date)]),
     consumption_pattern |-> pattern,
     prediction_explanation |-> generate_prediction_explanation(pattern, now_)]

\* the detail of the matched entry
ProductConsumptionDetail(matched, decay_rate, now_) ==
    DetailOf(matched,
             calculate_consumption_pattern(matched.name, matched.purchases,
                                           decay_rate, now_),
             now_)

\* the detail without "Just use first result": nothing is reported when no
\* name matches in Python
get_product_consumption_detail_nofallback(db, now_, product_name, decay_rate) ==
    LET products == get_product_purchase_history(db, product_name, 1)
        found == FindMatch(products, product_name, None)
    IN  IF products = <<>> THEN None
        ELSE IF found.exact_match = None /\ found.best_match = None THEN None
        ELSE ProductConsumptionDetail(Matched(products, product_name), decay_rate, now_)

get_product_consumption_detail(db, now_, product_name, decay_rate) ==
    LET products == get_product_purchase_history(db, product_name, 1)
    IN  IF products = <<>> THEN None
        ELSE ProductConsumptionDetail(Matched(products, product_name), decay_rate, now_)

-----------------------------------------------------------------------------
(* get_shopping_list: GET /analytics/recommendations/shopping-list         *)

\* a query parameter that the request does not carry
Absent == <<"absent">>

\* Query(default, ...): the value the handler receives
Query(param, default) == IF param = Absent THEN default ELSE param

\* an int parameter: the request carries it as a number <<n, 1>>
QueryInt(param, default) == IF param = Absent THEN default ELSE param[1]

Arguments(days_ahead, min_confidence, decay_rate, min_purchases, max_avg_interval, max_days_since_last) ==
    [days_ahead |-> days_ahead,
     min_confidence |-> min_confidence,
     decay_rate |-> decay_rate,
     min_purchases |-> min_purchases,
     max_avg_interval |-> max_avg_interval,
     max_days_since_last |-> max_days_since_last]

\* the parameters of the handler for query q; decay_rate is always supplied,
\* its default 0.02 having no rational weights
Parameters(q) ==
    Arguments(QueryInt(q.days_ahead, 4),
              Query(q.min_confidence, <<3, 10>>),
              q.decay_rate,
              QueryInt(q.min_purchases, 3),
              QueryInt(q.max_avg_interval, 60),
              QueryInt(q.max_days_since_last, 90))

\* the decay rates as numbers, to five decimals
DecayRateValue(decay_rate) ==
    CASE decay_rate = "ln(2)/7" -> Rat(9902, 100000)
      [] decay_rate = "ln(3/2)/7" -> Rat(5792, 100000)
      [] decay_rate = "0.0001" -> Rat(1, 10000)
      [] decay_rate = "0.2" -> Rat(2, 10)

\* Query(..., ge=ge, le=le): the value passes the validation
InRange(value, ge, le) == RLe(ge, value) /\ RLe(value, le)

\* the parameters of the shopping list without the check of days_ahead
ValidShoppingListParameters_anydays(a) ==
    /\ InRange(a.min_confidence, Zero, One)
    /\ InRange(DecayRateValue(a.decay_rate), <<1, 1000>>, <<1, 10>>)
    /\ InRange(FromInt(a.min_purchases), FromInt(1), FromInt(10))
    /\ InRange(FromInt(a.max_avg_interval), FromInt(7), FromInt(180))
    /\ InRange(FromInt(a.max_days_since_last), FromInt(14), FromInt(365))

\* the validation of the parameters of GET shopping-list
ValidShoppingListParameters(a) ==
    /\ InRange(FromInt(a.days_ahead), FromInt(1), FromInt(30))
    /\ InRange(a.min_confidence, Zero, One)
    /\ InRange(DecayRateValue(a.decay_rate), <<1, 1000>>, <<1, 10>>)
    /\ InRange(FromInt(a.min_purchases), FromInt(1), FromInt(10))
    /\ InRange(FromInt(a.max_avg_interval), FromInt(7), FromInt(180))
    /\ InRange(FromInt(a.max_days_since_last), FromInt(14), FromInt(365))

\* the validation of the parameters of GET product detail
ValidDetailParameters(decay_rate) ==
    InRange(DecayRateValue(decay_rate), <<1, 1000>>, <<1, 10>>)

\* the answer to a request that fails the validation
ValidationError == [kind |-> "validation_error", status_code |-> 422]

\* the handler's call of the service
get_shopping_list(db, now_, a) ==
    generate_shopping_list(db, now_, a.days_ahead, a.min_confidence, a.decay_rate,
                           a.min_purchases, a.max_avg_interval, a.max_days_since_last)

-----------------------------------------------------------------------------
(* The state machine: receipts are stored as the clock advances, and the   *)
(* recommendation functions are called on the stored rows.                 *)

MaxWeeks == 2        \* the clock runs for this many weeks
MaxPurchases == 3    \* rows stored per product
MaxRows == 5         \* rows stored in all
MaxCount == 12       \* purchase counts passed to calculate_confidence
MaxGaps == 4         \* gaps between the events passed to calculate_consumption_pattern
MaxDetailRows == 4   \* rows stored in all before a product detail is asked for
MaxRemote == 5       \* receipts the remote API lists
MaxBatch == 2        \* receipts in a page when the sync service is given a batch size
MaxProducts == 2     \* products of the remote catalogue
MaxTokens == 3       \* access tokens the remote grants while others are held
MaxTied == 3         \* purchases in a list that is reordered
MaxElapses == 3      \* half cache durations that pass in all

Brood == <<"B", "r", "o", "o", "d">>
Melk == <<"M", "e", "l", "k">>
Kokosmelk == <<"K", "o", "k", "o", "s", "m", "e", "l", "k">>
Rose == <<"R", "o", "s", "é">>
Products == {Brood, Melk}

\* a receipt from long before the first week: old enough for the sentinel
\* of days_until_needed and for the weights to underflow
StartDay == ShoppingCycleDays * UnderflowWeeks("ln(3/2)/7")
AncientDay == StartDay - ShoppingCycleDays * UnderflowWeeks("ln(3/2)/7")

\* (quantity, unit_price) of a line item, as the remote API reports them
Offers == {<<None, None>>, <<<<1, 2>>, <<1299, 100>>>>, <<<<2, 1>>, <<129, 100>>>>}
Offer(name) == IF name = Melk THEN <<<<2, 1>>, <<129, 100>>>> ELSE <<<<1, 1>>, <<249, 100>>>>

\* a receipt is dated today or, the clocks disagreeing, a week ahead
ReceiptDates == {now, now + ShoppingCycleDays}

PurchasesOf(name) ==
    BagCardinality([r \in {x \in BagToSet(receipt_items) : x.product_name = name}
                       |-> receipt_items[r]])

Init ==
    /\ now = StartDay
    /\ receipt_items = EmptyBag
    /\ request = NoRequest
    /\ response = NoResponse
    /\ access_token = None
    /\ remote = <<>>
    /\ receipts = {}
    /\ remote_calls = <<>>
    /\ sync = NoSync
    /\ product_cache = {}
    /\ token_file = None
    /\ instance = None
    /\ in_flight = NoRequest

\* the clock advances by a week
Tick ==
    /\ request = NoRequest
    /\ now < StartDay + MaxWeeks * ShoppingCycleDays
    /\ now' = now + ShoppingCycleDays
    /\ UNCHANGED <<receipt_items, request, response>>
    /\ UNCHANGED client_vars

\* SyncService._insert_receipt: a line item of a receipt is stored
InsertItem(name, date, quantity, unit_price) ==
    /\ request = NoRequest
    /\ PurchasesOf(name) < MaxPurchases
    /\ BagCardinality(receipt_items) < MaxRows
    /\ receipt_items' = receipt_items (+) SetToBag({[product_name |-> name,
                            product_id |-> None,
                            receipt_id |-> NoId,
                            transaction_moment |-> date,
                            quantity |-> quantity,
                            unit_price |-> unit_price]})
    /\ UNCHANGED <<now, request, response>>
    /\ UNCHANGED client_vars

\* a call of generate_shopping_list
ShoppingList(a) ==
    /\ request = NoRequest
    /\ request' = [op |-> "generate_shopping_list", args |-> a]
    /\ response' = [kind |-> "shopping_list",
                    body |-> generate_shopping_list(receipt_items, now, a.days_ahead,
                                 a.min_confidence, a.decay_rate, a.min_purchases,
                                 a.max_avg_interval, a.max_days_since_last)]
    /\ UNCHANGED <<now, receipt_items>>
    /\ UNCHANGED client_vars

\* GET /analytics/recommendations/shopping-list with query q
GetShoppingList(q) ==
    /\ request = NoRequest
    /\ request' = [op |-> "get_shopping_list", args |-> q]
    /\ response' = IF ~ValidShoppingListParameters(Parameters(q)) THEN ValidationError
                    ELSE [kind |-> "shopping_list",
                          body |-> get_shopping_list(receipt_items, now, Parameters(q))]
    /\ UNCHANGED <<now, receipt_items>>
    /\ UNCHANGED client_vars

\* calculate_consumption_pattern on the stored history of one product, as
\* get_product_consumption_detail calls it
Estimate(name, decay_rate) ==
    /\ request = NoRequest
    /\ PurchasesOf(name) > 0
    /\ LET products == get_product_purchase_history(receipt_items, name, 1)
           entry == CHOOSE i \in 1..Len(products) : products[i].name = name
       IN  /\ request' = [op |-> "calculate_consumption_pattern",
                          purchases |-> products[entry].purchases,
                          decay_rate |-> decay_rate]
           /\ response' = [kind |-> "pattern",
                           body |-> calculate_consumption_pattern(name,
                                        products[entry].purchases, decay_rate, now)]
    /\ UNCHANGED <<now, receipt_items>>
    /\ UNCHANGED client_vars

\* a call of calculate_consumption_pattern
ConsumptionPattern(purchases, decay_rate) ==
    /\ request = NoRequest
    /\ request' = [op |-> "calculate_consumption_pattern",
                   purchases |-> purchases,
                   decay_rate |-> decay_rate]
    /\ response' = [kind |-> "pattern",
                    body |-> calculate_consumption_pattern(Melk, purchases, decay_rate,
                                                           now)]
    /\ UNCHANGED <<now, receipt_items>>
    /\ UNCHANGED client_vars

\* a call of calculate_confidence
Confidence(purchase_count, median_interval, days_since_last) ==
    /\ request = NoRequest
    /\ request' = [op |-> "calculate_confidence",
                   purchase_count |-> purchase_count,
                   median_interval |-> median_interval,
                   days_since_last |-> days_since_last]
    /\ response' = [kind |-> "confidence",
                    body |-> calculate_confidence(purchase_count, median_interval,
                                                  days_since_last)]
    /\ UNCHANGED <<now, receipt_items>>
    /\ UNCHANGED client_vars

\* a call of get_product_purchase_history
PurchaseHistory(product_name, min_purchases) ==
    /\ request = NoRequest
    /\ request' = [op |-> "get_product_purchase_history",
                   product_name |-> product_name,
                   min_purchases |-> min_purchases]
    /\ response' = [kind |-> "history",
                    body |-> get_product_purchase_history(receipt_items, product_name,
                                                          min_purchases)]
    /\ UNCHANGED <<now, receipt_items>>
    /\ UNCHANGED client_vars

\* "if not result: raise HTTPException(status_code=404, ...)"
DetailResponse(result) ==
    IF result = None THEN [kind |-> "not_found", status_code |-> 404]
    ELSE [kind |-> "detail", status_code |-> 200, body |-> result]

\* GET /analytics/recommendations/product/{product_name}
GetProductDetail(product_name, decay_rate) ==
    /\ request = NoRequest
    /\ request' = [op |-> "get_product_consumption_detail",
                   product_name |-> product_name,
                   decay_rate |-> decay_rate]
    /\ response' = IF ~ValidDetailParameters(decay_rate) THEN ValidationError
                   ELSE DetailResponse(get_product_consumption_detail(
                            receipt_items, now, product_name, decay_rate))
    /\ UNCHANGED <<now, receipt_items>>
    /\ UNCHANGED client_vars

\* the response has been sent; nothing is kept between requests
Return ==
    /\ request # NoRequest
    /\ response # NoResponse
    /\ request' = NoRequest
    /\ response' = NoResponse
    /\ remote_calls' = <<>>
    /\ UNCHANGED <<now, receipt_items, access_token, remote, receipts, sync>>
    /\ UNCHANGED store_vars

-----------------------------------------------------------------------------
(* The calls of the model.                                                 *)

\* the arguments of generate_shopping_list: a base call and the calls that
\* differ from it in one argument
BaseCall == Arguments(4, None, "ln(2)/7", 1, 60, 90)
Calls ==
    {BaseCall}
    \cup {[BaseCall EXCEPT !.days_ahead = 7],
          [BaseCall EXCEPT !.min_confidence = <<18, 100>>],
          [BaseCall EXCEPT !.decay_rate = "ln(3/2)/7"],
          [BaseCall EXCEPT !.min_purchases = 3],
          [BaseCall EXCEPT !.max_avg_interval = 7],
          [BaseCall EXCEPT !.max_days_since_last = 14]}

\* the queries of GET shopping-list: with and without min_confidence
Queries ==
    {Arguments(Absent, c, "ln(2)/7", Absent, Absent, Absent) : c \in {Absent, <<18, 100>>}}

\* the products and the product names asked for in GET product detail: a
\* name in either case, a part of two names, a LIKE wildcard, a name with a
\* letter outside ASCII in either case, and a name that is not stored
DetailProducts == {Melk, Kokosmelk, Rose}
ProductNames ==
    {<<"m", "e", "l", "k">>, <<"M", "E", "L", "K">>, <<"e", "l", "k">>,
     <<"m", "_", "l", "k">>, <<"r", "o", "s", "é">>, <<"r", "o", "s", "É">>,
     <<"b", "o", "s">>}

\* the intervals and recencies passed to calculate_confidence
Intervals == {Zero, <<7, 1>>, <<21, 2>>, <<14, 1>>}
Recencies == {<<-7, 1>>, Zero, <<7, 1>>, <<14, 1>>, <<21, 1>>, <<70, 1>>}

\* the recommendation service on the receipts of two products, each dated
\* the day it is stored
Next ==
    \/ Tick
    \/ \E name \in Products :
           InsertItem(name, now, Offer(name)[1], Offer(name)[2])
    \/ \E a \in Calls : ShoppingList(a)
    \/ \E q \in Queries : GetShoppingList(q)
    \/ Return

Spec == Init /\ [][Next]_vars

\* the estimator on the receipts of one product, in all their variety
EstimatorNext ==
    \/ Tick
    \/ \E date \in ReceiptDates \cup {AncientDay}, offer \in Offers :
           InsertItem(Melk, date, offer[1], offer[2])
    \/ \E decay_rate \in DecayRates : Estimate(Melk, decay_rate)
    \/ Return

EstimatorSpec == Init /\ [][EstimatorNext]_vars

\* calculate_confidence on its own
ConfidenceNext ==
    \/ \E purchase_count \in 1..MaxCount, median_interval \in Intervals,
          days_since_last \in Recencies :
           Confidence(purchase_count, median_interval, days_since_last)
    \/ Return

ConfidenceSpec == Init /\ [][ConfidenceNext]_vars

\* the name filters of get_product_purchase_history: none, a part of two
\* names, and a name that is not stored
NameFilters == {None, <<"e", "l", "k">>, <<"b", "o", "s">>}

\* the extraction on the receipts of three products
ExtractorNext ==
    \/ Tick
    \/ \E name \in DetailProducts, date \in ReceiptDates :
           /\ BagCardinality(receipt_items) < MaxDetailRows
           /\ InsertItem(name, date, Offer(name)[1], Offer(name)[2])
    \/ \E product_name \in NameFilters, min_purchases \in 1..MaxPurchases :
           PurchaseHistory(product_name, min_purchases)
    \/ Return

ExtractorSpec == Init /\ [][ExtractorNext]_vars

\* the gaps, in days, between consecutive events: none, a week, and an
\* outlier so long that the weights of the events before it underflow
Gaps == {0, ShoppingCycleDays, StartDay}

\* the events with the given gaps, the last one dated on the first day
RECURSIVE EventsWithGaps(_)
EventsWithGaps(gaps) ==
    IF gaps = <<>>
    THEN <<[date |-> StartDay, quantity |-> <<2, 1>>, unit_price |-> <<129, 100>>,
            product_id |-> None]>>
    ELSE LET later == EventsWithGaps(Tail(gaps))
         IN  <<[later[1] EXCEPT !.date = @ - Head(gaps)]>> \o later

Histories ==
    {EventsWithGaps(gaps) : gaps \in UNION {[1..n -> Gaps] : n \in 0..MaxGaps}}

\* calculate_consumption_pattern on histories given by their gaps
PatternNext ==
    \/ Tick
    \/ \E purchases \in Histories, decay_rate \in DecayRates :
           ConsumptionPattern(purchases, decay_rate)
    \/ Return

PatternSpec == Init /\ [][PatternNext]_vars

\* the purchases of one product on two days, some at the same moment, in
\* two quantities and under two product ids
TiedEvents ==
    {[date |-> StartDay - w * ShoppingCycleDays, quantity |-> FromInt(q),
      unit_price |-> <<129, 100>>, product_id |-> <<"wi", i>>] :
        w \in {0, 1}, q \in {1, 2}, i \in {1, 2}}

\* the lists of purchases in every order
TiedHistories == UNION {[1..n -> TiedEvents] : n \in 1..MaxTied}

\* calculate_consumption_pattern on purchases in any order
ReorderNext ==
    \/ Tick
    \/ \E purchases \in TiedHistories, decay_rate \in DecayRates :
           ConsumptionPattern(purchases, decay_rate)
    \/ Return

ReorderSpec == Init /\ [][ReorderNext]_vars

-----------------------------------------------------------------------------
(* routes.py: the receipts router; sync_service.py: SyncService            *)

\* SyncService.__init__: the defaults
consecutive_existing_threshold == 3
batch_size == 50

\* the token the remote hands out
Token == <<"token">>

\* AHClient.is_authenticated
is_authenticated == access_token # None

\* HTTPException(status_code=401, detail="Not authenticated. ...")
NotAuthenticated == [kind |-> "error", status_code |-> 401]

\* a request the client sends to the remote API
Call(op, arg) == [op |-> op, arg |-> arg]

\* the remote API lists one more receipt, with or without an id
RemotePurchase(with_id) ==
    /\ request = NoRequest
    /\ Len(remote) < MaxRemote
    /\ remote' = <<IF with_id THEN Len(remote) + 1 ELSE NoId>> \o remote
    /\ UNCHANGED <<now, receipt_items, request, response,
                   access_token, receipts, remote_calls, sync>>
    /\ UNCHANGED store_vars

\* POST /receipts/auth: exchange_code, which the remote accepts or refuses
authenticate(ok) ==
    /\ request = NoRequest
    /\ request' = [op |-> "authenticate"]
    /\ remote_calls' = Append(remote_calls, Call("exchange_code", 0))
    /\ access_token' = IF ok THEN Token ELSE access_token
    /\ response' = IF ok THEN [kind |-> "authenticated", status_code |-> 200]
                   ELSE [kind |-> "error", status_code |-> 400]
    /\ UNCHANGED <<now, receipt_items, remote, receipts, sync>>
    /\ UNCHANGED store_vars

\* DELETE /receipts/auth: the token file and the client are dropped
logout ==
    /\ request = NoRequest
    /\ request' = [op |-> "logout"]
    /\ access_token' = None
    /\ response' = [kind |-> "logged out", status_code |-> 200]
    /\ UNCHANGED <<now, receipt_items, remote, receipts, remote_calls, sync>>
    /\ UNCHANGED store_vars

\* a handler that asks the client for one thing: 401 without a token, else
\* the client's answer, or 500 when the call raises
ClientRoute(op, call, authenticated, ok) ==
    /\ request = NoRequest
    /\ request' = [op |-> op]
    /\ IF ~authenticated
       THEN /\ response' = NotAuthenticated
            /\ remote_calls' = remote_calls
       ELSE /\ remote_calls' = Append(remote_calls, call)
            /\ response' = IF ok THEN [kind |-> op, status_code |-> 200]
                           ELSE [kind |-> "error", status_code |-> 500]
    /\ UNCHANGED <<now, receipt_items, access_token, remote, receipts, sync>>
    /\ UNCHANGED store_vars

\* GET /receipts
list_receipts(offset, limit, ok) ==
    ClientRoute("list_receipts", Call("get_receipts", offset), is_authenticated, ok)

\* GET /receipts/{receipt_id}
get_receipt(receipt_id, ok) ==
    ClientRoute("get_receipt", Call("get_receipt", receipt_id), is_authenticated, ok)

\* GET /receipts/{receipt_id}/pdf without the check of the token
get_receipt_pdf_unguarded(receipt_id, ok) ==
    ClientRoute("get_receipt_pdf", Call("get_receipt_pdf", receipt_id), TRUE, ok)

\* GET /receipts/{receipt_id}/pdf
get_receipt_pdf(receipt_id, ok) ==
    ClientRoute("get_receipt_pdf", Call("get_receipt_pdf", receipt_id), is_authenticated, ok)

\* the receipt id add_error is given for a page that could not be fetched
batch_fetch == -1

\* SyncResult()
SyncResult == [synced_count |-> 0, skipped_count |-> 0, error_count |-> 0,
               synced_receipts |-> <<>>, errors |-> <<>>,
               batch_fetch_failed |-> FALSE]

\* an error that is counted but not listed
add_error_unlisted(result, receipt_id) ==
    [result EXCEPT !.error_count = @ + 1]

\* SyncResult.add_error
add_error(result, receipt_id) ==
    [result EXCEPT !.error_count = @ + 1, !.errors = Append(@, receipt_id)]

\* SyncResult.add_synced
add_synced(result, receipt_id) ==
    [result EXCEPT !.synced_count = @ + 1, !.synced_receipts = Append(@, receipt_id)]

\* sync_receipts up to its loop: the result, the snapshot of the stored ids
\* and the counters; seen lists the summaries the for loop has taken
SyncFrame(full_sync, threshold, batch) ==
    [pc |-> "fetch_page",
     full_sync |-> full_sync,
     consecutive_existing_threshold |-> threshold,
     batch_size |-> batch,
     result |-> SyncResult,
     existing_ids |-> receipts,
     consecutive_existing |-> 0,
     offset |-> 0,
     receipts_page |-> <<>>,
     total_elements |-> 0,
     receipt_id |-> NoId,
     seen |-> <<>>,
     stopped_early |-> FALSE,
     session |-> {},
     outcome |-> "none"]

\* POST /receipts/sync: 401 without a token, else the sync starts
sync_receipts(full_sync) ==
    /\ request = NoRequest
    /\ request' = [op |-> "sync_receipts"]
    /\ IF ~is_authenticated
       THEN /\ response' = NotAuthenticated
            /\ sync' = sync
       ELSE /\ response' = NoResponse
            /\ sync' = SyncFrame(full_sync, consecutive_existing_threshold, batch_size)
    /\ UNCHANGED <<now, receipt_items, access_token, remote, receipts, remote_calls>>
    /\ UNCHANGED store_vars

\* SyncService(client, db, threshold, batch).sync_receipts(full_sync) with a
\* client that holds a token
SyncServiceCall(full_sync, threshold, batch) ==
    /\ request = NoRequest
    /\ is_authenticated
    /\ request' = [op |-> "SyncService.sync_receipts"]
    /\ response' = NoResponse
    /\ sync' = SyncFrame(full_sync, threshold, batch)
    /\ UNCHANGED <<now, receipt_items, access_token, remote, receipts, remote_calls>>
    /\ UNCHANGED store_vars

\* the page the remote returns for offset and limit
Page(offset, limit) ==
    SubSeq(remote, offset + 1, IF offset + limit < Len(remote) THEN offset + limit
                               ELSE Len(remote))

\* "Fetch batch of receipt summaries from API": the call succeeds or raises
FetchPage(ok) ==
    /\ sync.pc = "fetch_page"
    /\ remote_calls' = Append(remote_calls, Call("get_receipts", sync.offset))
    /\ sync' = IF ~ok
               THEN [sync EXCEPT !.result = [add_error(@, batch_fetch)
                                                EXCEPT !.batch_fetch_failed = TRUE],
                                 !.pc = "done"]
               ELSE IF Page(sync.offset, sync.batch_size) = <<>>
               THEN [sync EXCEPT !.pc = "done"]
               ELSE [sync EXCEPT !.receipts_page = Page(sync.offset, sync.batch_size),
                                 !.total_elements = Len(remote),
                                 !.pc = "for"]
    /\ UNCHANGED <<now, receipt_items, request, response, access_token, remote, receipts>>
    /\ UNCHANGED store_vars

\* an existing receipt that leaves the counter as it is
Existing_nocount(s) ==
    [s EXCEPT !.result.skipped_count = @ + 1]

\* "Check if receipt already exists": skipped and counted, and an
\* incremental sync returns at the threshold
Existing(s) ==
    LET counted == [s EXCEPT !.result.skipped_count = @ + 1,
                             !.consecutive_existing = @ + 1]
    IN  IF ~s.full_sync
           /\ counted.consecutive_existing >= s.consecutive_existing_threshold
        THEN [counted EXCEPT !.pc = "done", !.stopped_early = TRUE]
        ELSE counted

\* a new receipt that leaves the counter as it is
New_noreset(s) ==
    [s EXCEPT !.pc = "fetch_details"]

\* "Reset consecutive counter when we find a new receipt"
New(s) ==
    [s EXCEPT !.consecutive_existing = 0, !.pc = "fetch_details"]

\* the end of a page that leaves the offset where it is
NextBatch_sameoffset(s) ==
    [s EXCEPT !.pc = IF s.offset >= s.total_elements THEN "done" ELSE "fetch_page"]

\* "Move to next batch" and "Check if we've processed all receipts"
NextBatch(s) ==
    LET offset == s.offset + s.batch_size
    IN  [s EXCEPT !.offset = offset,
                  !.pc = IF offset >= s.total_elements THEN "done" ELSE "fetch_page"]

\* one receipt summary of the page, or the end of the page
ForReceiptSummary ==
    /\ sync.pc = "for"
    /\ IF sync.receipts_page = <<>>
       THEN sync' = NextBatch(sync)
       ELSE LET receipt_id == Head(sync.receipts_page)
                taken == [sync EXCEPT !.receipts_page = Tail(@),
                                      !.receipt_id = receipt_id,
                                      !.seen = Append(@, receipt_id),
                                      !.outcome = "none"]
            IN  sync' = IF receipt_id = NoId THEN taken
                        ELSE IF receipt_id \in sync.existing_ids THEN Existing(taken)
                        ELSE New(taken)
    /\ UNCHANGED <<now, receipt_items, request, response,
                   access_token, remote, receipts, remote_calls>>
    /\ UNCHANGED store_vars

\* the line item map_items_to_db makes of the receipt; it stands for the
\* items, discounts and VAT rows of the receipt
ItemOf(receipt_id) ==
    [product_name |-> Melk,
     product_id |-> None,
     receipt_id |-> receipt_id,
     transaction_moment |-> StartDay,
     quantity |-> Offer(Melk)[1],
     unit_price |-> Offer(Melk)[2]]

\* a rollback that leaves the pending rows in the session
rollback_pending(session) == session

\* self.db.rollback(): the pending rows are dropped
rollback(session) == {}

\* what becomes of the details of a new receipt: they are fetched, mapped
\* and committed, or the fetch raises, returns nothing, or the mapping or
\* the commit raises
Outcomes == {"stored", "fetch_error", "empty", "map_error", "commit_error"}

\* the session after _insert_receipt has failed: the mapping raises before
\* anything is added, the commit after the rows were added
Failed(session, receipt_id, outcome) ==
    IF outcome = "map_error" THEN rollback(session)
    ELSE IF outcome = "commit_error" THEN rollback(session \cup {receipt_id})
    ELSE session

\* "Fetch full receipt details" and _insert_receipt: the receipt and its
\* rows are added to the session and committed, or a failure is recorded
FetchDetails(outcome) ==
    /\ sync.pc = "fetch_details"
    /\ remote_calls' = Append(remote_calls, Call("get_receipt", sync.receipt_id))
    /\ IF outcome = "stored"
       THEN LET added == sync.session \cup {sync.receipt_id}
            IN  /\ receipts' = receipts \cup added
                /\ receipt_items' = receipt_items (+) SetToBag({ItemOf(r) : r \in added})
                /\ sync' = [sync EXCEPT !.result = add_synced(@, sync.receipt_id),
                                        !.session = {},
                                        !.outcome = outcome,
                                        !.pc = "for"]
       ELSE /\ UNCHANGED <<receipts, receipt_items>>
            /\ sync' = [sync EXCEPT !.result = add_error(@, sync.receipt_id),
                                    !.session = Failed(@, sync.receipt_id, outcome),
                                    !.outcome = outcome,
                                    !.pc = "for"]
    /\ UNCHANGED <<now, request, response, access_token, remote>>
    /\ UNCHANGED store_vars

\* sync_receipts has returned: the route's SyncResultResponse
SyncResultResponse ==
    /\ sync.pc = "done"
    /\ response' = [kind |-> "sync_result", status_code |-> 200,
                    status |-> IF sync.result.error_count = 0 THEN "success"
                               ELSE IF sync.result.synced_count > 0 THEN "partial"
                               ELSE "error",
                    synced_count |-> sync.result.synced_count,
                    skipped_count |-> sync.result.skipped_count,
                    error_count |-> sync.result.error_count,
                    total_in_db |-> Cardinality(receipts)]
    /\ sync' = NoSync
    /\ UNCHANGED <<now, receipt_items, request, access_token, remote, receipts, remote_calls>>
    /\ UNCHANGED store_vars

\* the receipts router and the sync service on a remote of a few receipts
ReceiptsNext ==
    \/ \E with_id \in BOOLEAN : RemotePurchase(with_id)
    \/ \E ok \in BOOLEAN : authenticate(ok)
    \/ logout
    \/ \E ok \in BOOLEAN : list_receipts(0, 20, ok)
    \/ \E receipt_id \in 1..MaxRemote, ok \in BOOLEAN : get_receipt(receipt_id, ok)
    \/ \E receipt_id \in 1..MaxRemote, ok \in BOOLEAN : get_receipt_pdf(receipt_id, ok)
    \/ \E full_sync \in BOOLEAN : sync_receipts(full_sync)
    \/ \E full_sync \in BOOLEAN, batch \in 1..MaxBatch :
           SyncServiceCall(full_sync, consecutive_existing_threshold, batch)
    \/ \E ok \in BOOLEAN : FetchPage(ok)
    \/ ForReceiptSummary
    \/ \E outcome \in Outcomes : FetchDetails(outcome)
    \/ SyncResultResponse
    \/ Return

ReceiptsSpec == Init /\ [][ReceiptsNext]_vars

\* a step of sync_receipts: every call it awaits returns or raises
SyncStep ==
    \/ \E ok \in BOOLEAN : FetchPage(ok)
    \/ ForReceiptSummary
    \/ \E outcome \in Outcomes : FetchDetails(outcome)

\* the sync service on a remote of a few receipts
SyncNext ==
    \/ \E with_id \in BOOLEAN : RemotePurchase(with_id)
    \/ authenticate(TRUE)
    \/ \E full_sync \in BOOLEAN, batch \in 1..MaxBatch :
           SyncServiceCall(full_sync, consecutive_existing_threshold, batch)
    \/ SyncStep
    \/ SyncResultResponse
    \/ Return

\* the coroutine goes on whenever it can: the calls it awaits time out
SyncSpec == Init /\ [][SyncNext]_vars /\ WF_vars(SyncStep)

-----------------------------------------------------------------------------
(* product_routes.py: the products router and its cache                    *)

\* "Cache duration in days"
CACHE_DURATION_DAYS == 30

\* the ids products are asked for and stored under
ProductIds == 1..MaxProducts

\* the time that passes between two requests of the product routes
HalfDuration == CACHE_DURATION_DAYS \div 2

\* a row of product_cache; expires_at is None or <<day>>
ProductCache(product_id, fetched_at, expires_at) ==
    [product_id |-> product_id, fetched_at |-> fetched_at, expires_at |-> expires_at]

\* db.query(ProductCache).filter(ProductCache.product_id == product_id).first()
Cached(product_id) ==
    IF \E c \in product_cache : c.product_id = product_id
    THEN CHOOSE c \in product_cache : c.product_id = product_id
    ELSE None

\* an entry is valid also at the moment it expires
is_cache_valid_inclusive(cached, now_) ==
    IF cached = None THEN FALSE
    ELSE IF cached.expires_at = None THEN FALSE
    ELSE cached.expires_at[1] >= now_

\* _is_cache_valid
is_cache_valid(cached, now_) ==
    IF cached = None THEN FALSE
    ELSE IF cached.expires_at = None THEN FALSE
    ELSE cached.expires_at[1] > now_

\* the cache after an update that leaves the expiry of an existing row alone
update_cache_keepexpiry(cache, product, now_) ==
    IF \E c \in cache : c.product_id = product.product_id
    THEN {IF c.product_id = product.product_id
          THEN ProductCache(c.product_id, now_, c.expires_at) ELSE c : c \in cache}
    ELSE cache \cup {ProductCache(product.product_id, now_,
                                  <<now_ + CACHE_DURATION_DAYS>>)}

\* _update_cache: the row of product.product_id is updated or created
update_cache(cache, product, now_) ==
    {c \in cache : c.product_id # product.product_id}
        \cup {ProductCache(product.product_id, now_, <<now_ + CACHE_DURATION_DAYS>>)}

\* the time between requests passes
Elapse ==
    /\ request = NoRequest
    /\ now < StartDay + MaxElapses * HalfDuration
    /\ now' = now + HalfDuration
    /\ UNCHANGED <<receipt_items, request, response, access_token, remote, receipts,
                   remote_calls, sync, product_cache, token_file, instance, in_flight>>

\* a row written to product_cache directly, as the fixtures of the tests do:
\* without expiry, expired or valid
AddCacheEntry(product_id, expires_at) ==
    /\ request = NoRequest
    /\ Cached(product_id) = None
    /\ product_cache' = product_cache \cup {ProductCache(product_id, now, expires_at)}
    /\ UNCHANGED <<now, receipt_items, request, response, access_token, remote, receipts,
                   remote_calls, sync, token_file, instance, in_flight>>

\* the answer of get_product after the remote has answered: 502 when the
\* call raised, 404 when there is no product, else the product
Fetched(product) ==
    IF product.outcome = "error" THEN [kind |-> "error", status_code |-> 502]
    ELSE IF product.outcome = "none" THEN [kind |-> "error", status_code |-> 404]
    ELSE [kind |-> "product", status_code |-> 200, source |-> "remote", body |-> product]

\* GET /products/{product_id}: product is the outcome of client.get_product,
\* a ProductDetail with the product_id the remote reports, none, or an error
\* when it raises
get_product(product_id, refresh, product) ==
    /\ request = NoRequest
    /\ request' = [op |-> "get_product", product_id |-> product_id, refresh |-> refresh]
    /\ IF ~refresh /\ is_cache_valid(Cached(product_id), now)
       THEN /\ response' = [kind |-> "product", status_code |-> 200, source |-> "cache",
                            body |-> Cached(product_id)]
            /\ UNCHANGED <<remote_calls, product_cache>>
       ELSE /\ remote_calls' = Append(remote_calls, Call("get_product", product_id))
            /\ response' = Fetched(product)
            /\ product_cache' = IF product.outcome = "found"
                                THEN update_cache(product_cache, product, now)
                                ELSE product_cache
    /\ UNCHANGED <<now, receipt_items, access_token, remote, receipts, sync,
                   token_file, instance, in_flight>>

\* GET /products/cache/stats
get_cache_stats ==
    /\ request = NoRequest
    /\ request' = [op |-> "get_cache_stats"]
    /\ LET total == Cardinality(product_cache)
           valid == Cardinality({c \in product_cache : is_cache_valid(c, now)})
       IN  response' = [kind |-> "cache_stats", status_code |-> 200,
                        total_cached |-> total,
                        valid |-> valid,
                        expired |-> total - valid,
                        cache_duration_days |-> CACHE_DURATION_DAYS]
    /\ UNCHANGED <<now, receipt_items, access_token, remote, receipts, remote_calls,
                   sync, product_cache, token_file, instance, in_flight>>

\* the entries the loop of clear_expired_cache deletes when it spares those
\* without an expiry
Deleted_onlydated(cache, now_) ==
    {c \in cache : c.expires_at # None /\ ~is_cache_valid(c, now_)}

\* the entries the loop of clear_expired_cache deletes
Deleted(cache, now_) == {c \in cache : ~is_cache_valid(c, now_)}

\* DELETE /products/cache/expired
clear_expired_cache ==
    /\ request = NoRequest
    /\ request' = [op |-> "clear_expired_cache"]
    /\ product_cache' = product_cache \ Deleted(product_cache, now)
    /\ response' = [kind |-> "cleared", status_code |-> 200,
                    deleted |-> Cardinality(Deleted(product_cache, now))]
    /\ UNCHANGED <<now, receipt_items, access_token, remote, receipts, remote_calls,
                   sync, token_file, instance, in_flight>>

\* the product a remote call returns: a ProductDetail under the id the remote
\* reports for it, nothing, or an exception
RemoteProducts ==
    {[outcome |-> "found", product_id |-> i] : i \in ProductIds}
        \cup {[outcome |-> o, product_id |-> 0] : o \in {"none", "error"}}

\* the expiry of a row a fixture writes: none, past or to come
FixtureExpiries == {None, <<now - HalfDuration>>, <<now + HalfDuration>>}

\* the product routes over a cache filled by requests and by fixtures
ProductsNext ==
    \/ Elapse
    \/ \E product_id \in ProductIds, expires_at \in FixtureExpiries :
          AddCacheEntry(product_id, expires_at)
    \/ \E product_id \in ProductIds, refresh \in BOOLEAN, product \in RemoteProducts :
          get_product(product_id, refresh, product)
    \/ get_cache_stats
    \/ clear_expired_cache
    \/ Return

ProductsSpec == Init /\ [][ProductsNext]_vars

\* the paths the analytics router registers below /analytics/recommendations
RecommendationRoutes == {"shopping-list", "product/{product_name}"}

\* the answer to a request whose path no route matches
NotFound == [kind |-> "not_found", status_code |-> 404]

\* GET /analytics/recommendations/consumption-patterns
GetConsumptionPatterns(q) ==
    /\ request = NoRequest
    /\ request' = [op |-> "get_consumption_patterns", args |-> q]
    /\ response' =
           IF "consumption-patterns" \notin RecommendationRoutes THEN NotFound
           ELSE LET a == Parameters(q)
                IN  [kind |-> "consumption_patterns", status_code |-> 200,
                     body |-> get_consumption_patterns(receipt_items, now, a.decay_rate,
                                  a.min_purchases, a.max_avg_interval,
                                  a.max_days_since_last)]
    /\ UNCHANGED <<now, receipt_items>>
    /\ UNCHANGED client_vars

\* queries of GET consumption-patterns, with and without filter parameters
PatternQueries ==
    {Arguments(Absent, Absent, "ln(2)/7", m, i, Absent) :
        m \in {Absent, FromInt(4)}, i \in {Absent, FromInt(50)}}

\* queries of GET shopping-list at and beyond the limits of days_ahead and
\* min_confidence, and with decay rates beyond the limits
LimitQueries ==
    {Arguments(FromInt(d), Absent, "ln(2)/7", Absent, Absent, Absent) : d \in {0, 1, 30, 31}}
    \cup {Arguments(Absent, c, "ln(2)/7", Absent, Absent, Absent) :
              c \in {<<-1, 10>>, Zero, One, <<3, 2>>}}
    \cup {Arguments(Absent, Absent, r, Absent, Absent, Absent) :
              r \in DecayRates \cup {"0.0001", "0.2"}}

\* the routes answering requests at and beyond the limits of their parameters
ValidationNext ==
    \/ Tick
    \/ \E name \in Products :
           /\ BagCardinality(receipt_items) < MaxDetailRows
           /\ InsertItem(name, now, Offer(name)[1], Offer(name)[2])
    \/ \E q \in LimitQueries : GetShoppingList(q)
    \/ \E decay_rate \in DecayRates \cup {"0.0001", "0.2"} :
           GetProductDetail(<<"m", "e", "l", "k">>, decay_rate)
    \/ \E q \in PatternQueries : GetConsumptionPatterns(q)
    \/ Return

ValidationSpec == Init /\ [][ValidationNext]_vars

\* the product detail on the receipts of three products
DetailNext ==
    \/ Tick
    \/ \E name \in DetailProducts :
           /\ BagCardinality(receipt_items) < MaxDetailRows
           /\ InsertItem(name, now, Offer(name)[1], Offer(name)[2])
    \/ \E product_name \in ProductNames : GetProductDetail(product_name, "ln(2)/7")
    \/ Return

DetailSpec == Init /\ [][DetailNext]_vars

-----------------------------------------------------------------------------
(* What the claims speak of, read from the state of a finished call.       *)

IsShoppingList == response.kind = "shopping_list"
IsPattern == response.kind = "pattern"
IsConfidence == response.kind = "confidence"

\* the arguments generate_shopping_list was called with
CallArgs ==
    IF request.op = "get_shopping_list" THEN Parameters(request.args) ELSE request.args

\* whether the request itself carried a minimum confidence
SuppliedMinConfidence ==
    IF request.op = "get_shopping_list" THEN request.args.min_confidence # Absent
    ELSE request.args.min_confidence # None

Range(seq) == {seq[i] : i \in 1..Len(seq)}

\* the pattern of every product in the store
StorePatterns ==
    Range(AllPatterns(get_product_purchase_history(receipt_items, None, 1),
                      CallArgs.decay_rate, now))

\* the inclusion rule, as the specification words it
Rejected(p) ==
    \/ p.purchase_count < CallArgs.min_purchases
    \/ RLt(FromInt(CallArgs.max_avg_interval), p.median_interval_days)
    \/ RLt(FromInt(CallArgs.max_days_since_last), p.days_since_last_purchase)

PassedFilter == {p \in StorePatterns : ~Rejected(p)}

BelowMinConfidence(p) ==
    CallArgs.min_confidence # None /\ RLt(p.confidence, CallArgs.min_confidence)

PassedGate == {p \in PassedFilter : ~BelowMinConfidence(p)}

IsNeeded(p) == RLe(p.days_until_needed, FromInt(CallArgs.days_ahead))
IsSoon(p) ==
    /\ RLt(FromInt(CallArgs.days_ahead), p.days_until_needed)
    /\ RLe(p.days_until_needed, FromInt(2 * CallArgs.days_ahead))

Listed(items, p) == \E i \in 1..Len(items) : items[i].product_name = p.product_name
InNeeded(p) == Listed(response.body.needed_items, p)
InSoon(p) == Listed(response.body.might_need_soon, p)

-----------------------------------------------------------------------------
\* C1: every pattern that passed the inclusion filter and the confidence
\* gate is in needed_items iff days_until_needed <= days_ahead, in
\* might_need_soon iff days_ahead < days_until_needed <= 2 * days_ahead, and
\* in neither list otherwise; no product is in both lists, and every item's
\* urgency names the list it is in.
C1_UrgencyPartition ==
    IsShoppingList =>
        /\ \A p \in PassedGate :
              /\ InNeeded(p) <=> IsNeeded(p)
              /\ InSoon(p) <=> IsSoon(p)
              /\ ~(InNeeded(p) /\ InSoon(p))
        /\ \A x \in Range(response.body.needed_items) : x.urgency = "needed"
        /\ \A x \in Range(response.body.might_need_soon) : x.urgency = "soon"
        /\ \A x \in Range(response.body.needed_items),
              y \in Range(response.body.might_need_soon) :
                  x.product_name # y.product_name

\* one product is listed as needed, another one passed filter and gate and is
\* returned in neither list
C1_Witness ==
    /\ IsShoppingList
    /\ \E p, q \in PassedGate :
          /\ InNeeded(p)
          /\ RLe(Zero, p.days_since_last_purchase)
          /\ RLe(Zero, q.days_since_last_purchase)
          /\ ~IsNeeded(q) /\ ~IsSoon(q)
          /\ ~InNeeded(q) /\ ~InSoon(q)

C3_NonNegativeFields ==
    IsPattern =>
        LET p == response.body
        IN  /\ p.purchase_count = Len(request.purchases)
            /\ \A x \in {p.total_quantity_purchased, p.median_quantity_per_purchase,
                         p.median_interval_days, p.weighted_avg_interval_days,
                         p.consumption_rate_per_day, p.days_since_last_purchase,
                         p.estimated_inventory, p.days_until_needed, p.median_price,
                         p.confidence} : RLe(Zero, x)

\* C4, as claimed: days_until_needed <= 9999, and it is 9999 exactly when
\* consumption_rate_per_day is 0.
C4_SentinelIffZeroRate ==
    IsPattern =>
        LET p == response.body
        IN  /\ RLe(p.days_until_needed, FromInt(SentinelDays))
            /\ p.days_until_needed = FromInt(SentinelDays)
               <=> p.consumption_rate_per_day = Zero

\* C4, amended: days_until_needed <= 9999; it is 9999 whenever
\* consumption_rate_per_day is 0, and with a positive rate it is
\* estimated_inventory / rate capped at 9999 (so it is 9999 as well when
\* that quotient is 9999 or more).
C4_SentinelClamp ==
    IsPattern =>
        LET p == response.body
            quotient == RDiv(p.estimated_inventory, p.consumption_rate_per_day)
        IN  /\ RLe(p.days_until_needed, FromInt(SentinelDays))
            /\ p.consumption_rate_per_day = Zero
               => p.days_until_needed = FromInt(SentinelDays)
            /\ p.consumption_rate_per_day # Zero
               => p.days_until_needed =
                      IF RLe(FromInt(SentinelDays), quotient)
                      THEN FromInt(SentinelDays) ELSE quotient

\* two purchases at the same moment: the rate is 0 and the sentinel is returned
C4_Witness ==
    /\ IsPattern
    /\ Len(request.purchases) > 1
    /\ response.body.consumption_rate_per_day = Zero
    /\ response.body.days_until_needed = FromInt(SentinelDays)

\* C5: for exactly one purchase dated d days before now,
\* weighted_avg_interval_days = median_interval_days = max(d, 7), whatever
\* the decay rate.
C5_SinglePurchaseFloor ==
    IsPattern /\ Len(request.purchases) = 1 =>
        LET d == now - request.purchases[1].date
            floor == IF d > 7 THEN d ELSE 7
        IN  /\ response.body.weighted_avg_interval_days = FromInt(floor)
            /\ response.body.median_interval_days = FromInt(floor)

\* a single purchase of two weeks ago: the interval is 14, not the floor
C5_Witness ==
    /\ IsPattern
    /\ Len(request.purchases) = 1
    /\ now - request.purchases[1].date = 14
    /\ response.body.weighted_avg_interval_days = <<14, 1>>

\* C6: calculate_confidence returns a value in [0, 1], in fact at most 0.9;
\* for fixed median_interval and days_since_last it is non-decreasing in
\* purchase_count, and from 10 purchases on it no longer changes.
C6_ConfidenceBoundedMonotone ==
    IsConfidence =>
        LET pc == request.purchase_count
            mi == request.median_interval
            dsl == request.days_since_last
            c == response.body
        IN  /\ RLe(Zero, c) /\ RLe(c, One) /\ RLe(c, <<9, 10>>)
            /\ \A k \in 1..pc : RLe(calculate_confidence(k, mi, dsl), c)
            /\ pc >= 10 => c = calculate_confidence(10, mi, dsl)

\* more than 10 purchases, bought again within the median interval: the
\* confidence is the maximum 0.9, above that of 9 purchases
C6_Witness ==
    /\ IsConfidence
    /\ request.purchase_count > 10
    /\ response.body = <<9, 10>>
    /\ RLt(calculate_confidence(9, request.median_interval, request.days_since_last),
           response.body)

\* the pattern an item of the shopping list was made from
PatternOf(item) == CHOOSE p \in StorePatterns : p.product_name = item.product_name

\* C7: needed_items and might_need_soon are each sorted ascending by the
\* pattern's days_until_needed: of two consecutive items, the earlier one's
\* pattern has the smaller or equal days_until_needed.
C7_ListsSorted ==
    IsShoppingList =>
        \A items \in {response.body.needed_items, response.body.might_need_soon} :
            \A i \in 1..(Len(items) - 1) :
                RLe(PatternOf(items[i]).days_until_needed,
                    PatternOf(items[i + 1]).days_until_needed)

\* a list of two items whose patterns differ in days_until_needed
C7_Witness ==
    /\ IsShoppingList
    /\ \E items \in {response.body.needed_items, response.body.might_need_soon} :
          /\ Len(items) = 2
          /\ RLt(PatternOf(items[1]).days_until_needed,
                 PatternOf(items[2]).days_until_needed)

\* the sum of the estimated costs of a set of patterns: median_price times
\* the suggested quantity max(1, ceil(median quantity)), to 2 decimals
RECURSIVE CostOf(_)
CostOf(patterns) ==
    IF patterns = {} THEN Zero
    ELSE LET p == CHOOSE x \in patterns : TRUE
             qty == IF ceil(p.median_quantity_per_purchase) > 1
                    THEN ceil(p.median_quantity_per_purchase) ELSE 1
         IN  RAdd(round(RMul(p.median_price, FromInt(qty)), 2),
                  CostOf(patterns \ {p}))

\* C8: estimated_total is the sum of estimated_cost over the items of
\* needed_items only, rounded to 2 decimals: the patterns of might_need_soon
\* and the dropped ones add nothing, and it is 0 when needed_items is empty.
C8_TotalOfNeededOnly ==
    IsShoppingList =>
        LET needed == response.body.needed_items
        IN  /\ response.body.estimated_total =
                   round(sum([i \in 1..Len(needed) |-> needed[i].estimated_cost]), 2)
            /\ response.body.estimated_total =
                   round(CostOf({p \in PassedGate : IsNeeded(p)}), 2)
            /\ needed = <<>> => response.body.estimated_total = Zero

\* both lists hold an item with a cost, and the total is that of needed_items
C8_Witness ==
    /\ IsShoppingList
    /\ Len(response.body.needed_items) > 0
    /\ Len(response.body.might_need_soon) > 0
    /\ RLt(Zero, response.body.might_need_soon[1].estimated_cost)
    /\ RLt(Zero, response.body.estimated_total)

\* C9: a pattern that passed the inclusion filter and is skipped for a
\* confidence below min_confidence is in neither list, adds nothing to
\* estimated_total and is not counted in items_filtered_out, which is
\* exactly the number of products the inclusion filter rejected.
C9_SkippedNotCounted ==
    IsShoppingList =>
        LET all == StorePatterns
            passed == {p \in all : ~Rejected(p)}
        IN  /\ response.body.items_filtered_out = Cardinality(all \ passed)
            /\ response.body.items_analyzed = Cardinality(passed)
            /\ \A p \in passed :
                  BelowMinConfidence(p) => ~InNeeded(p) /\ ~InSoon(p)
            /\ response.body.estimated_total =
                   round(CostOf({p \in passed : IsNeeded(p) /\ ~BelowMinConfidence(p)}), 2)

\* a product that passed the filter and would be needed is skipped for its
\* confidence; nothing is counted as filtered out and the total is 0
C9_Witness ==
    /\ IsShoppingList
    /\ \E p \in PassedFilter :
          /\ BelowMinConfidence(p)
          /\ IsNeeded(p)
          /\ RLt(Zero, p.median_price)
          /\ ~InNeeded(p) /\ ~InSoon(p)
    /\ response.body.items_filtered_out = 0
    /\ response.body.estimated_total = Zero

\* C10: a pattern that passed the inclusion filter and is due (needed or
\* soon) is left out of the lists iff the request supplied a minimum
\* confidence and the pattern's confidence is strictly below it; every
\* returned item has at least the supplied confidence, and a request without
\* a minimum confidence gets every due pattern back.
C10_GateOnlyWhenSupplied ==
    IsShoppingList =>
        /\ \A p \in PassedFilter :
              IsNeeded(p) \/ IsSoon(p) =>
                  (~InNeeded(p) /\ ~InSoon(p)
                   <=> /\ SuppliedMinConfidence
                       /\ RLt(p.confidence, request.args.min_confidence))
        /\ SuppliedMinConfidence =>
               \A x \in Range(response.body.needed_items)
                        \cup Range(response.body.might_need_soon) :
                   RLe(request.args.min_confidence, x.confidence)

\* the product detail call: the mapping it extracted and the name it selected
IsDetailCall == request.op = "get_product_consumption_detail"
Extracted == get_product_purchase_history(receipt_items, request.product_name, 1)
Selected == IF response.kind = "detail" THEN response.body.product_name ELSE None

\* the name selected for another query on the same store
SelectedFor(product_name) ==
    LET result == get_product_consumption_detail(receipt_items, now, product_name,
                                                 request.decay_rate)
    IN  IF result = None THEN None ELSE result.product_name

\* the matching policy (a), (b), (c) on a non-empty extracted mapping
MatchingPolicy ==
    IsDetailCall /\ Extracted # <<>> =>
        LET entries == Extracted
            query == lower(request.product_name)
            exact == {i \in 1..Len(entries) : lower(entries[i].name) = query}
            part == {i \in 1..Len(entries) : Contains(lower(entries[i].name), query)}
            count(i) == Len(entries[i].purchases)
        IN  IF exact # {} THEN \E i \in exact : Selected = entries[i].name
            ELSE IF part # {}
            THEN \E i \in part :
                    /\ Selected = entries[i].name
                    /\ \A j \in part : count(j) <= count(i)
                    /\ \A j \in part : j < i => count(j) < count(i)
            ELSE Selected = entries[1].name

\* queries that differ only in letter case select the same product
SameInEitherCase ==
    IsDetailCall =>
        \A other \in ProductNames :
            lower(other) = lower(request.product_name) => SelectedFor(other) = Selected

\* C11: get_product_consumption_detail selects (a) a product whose name
\* equals the query case-insensitively, (b) otherwise the product with the
\* most purchases among those whose name contains the query, the first one
\* on ties, (c) otherwise the first entry of the extracted mapping; and the
\* selection is the same for queries that differ only in letter case.
C11_SelectionPolicy == MatchingPolicy /\ SameInEitherCase

\* C12: the product detail reports "not found" (404) iff the extraction
\* yields an empty mapping; on a non-empty mapping it returns the detail of a
\* product that is a key of the mapping.
C12_NotFoundIffEmpty ==
    IsDetailCall =>
        LET entries == Extracted
        IN  /\ response.kind \in {"not_found", "detail"}
            /\ response.kind = "not_found" <=> entries = <<>>
            /\ response.kind = "not_found" => response.status_code = 404
            /\ entries # <<>> =>
                   /\ response.status_code = 200
                   /\ \E i \in 1..Len(entries) :
                          /\ entries[i].name = response.body.product_name
                          /\ response.body.consumption_pattern.purchase_count =
                                 Len(entries[i].purchases)

\* receipts are stored, none of them matches the name asked for: not found
C12_Witness ==
    /\ IsDetailCall
    /\ receipt_items # EmptyBag
    /\ Extracted = <<>>
    /\ response.kind = "not_found"

\* the restocking line of a returned explanation, by its kind
IsDetail == response.kind = "detail"
Restocking == response.body.prediction_explanation.restocking
SaysNow == Restocking.message = "You likely need to restock NOW"
SaysDays(decimals) ==
    /\ Restocking.message =
           IF decimals = 1 THEN "Estimated to need restocking in {:.1f} days"
           ELSE "Estimated to need restocking in about {:.0f} days"
    /\ Restocking.days =
           round(response.body.consumption_pattern.days_until_needed, decimals)
SaysUnable == Restocking.message = "Unable to predict when you'll need more"

\* C13, as claimed: three tiers of days_until_needed decide the restocking
\* line: <= 0 restock NOW; > 0 and <= 4 the day count with one decimal; every
\* other value the day estimate rounded to an integer.
C13_ThreeTiers ==
    IsDetail =>
        LET days == response.body.consumption_pattern.days_until_needed
        IN  IF RLe(days, Zero) THEN SaysNow
            ELSE IF RLe(days, FromInt(4)) THEN SaysDays(1)
            ELSE SaysDays(0)

\* C13, amended: four tiers decide the restocking line: the sentinel 9999
\* (or more) gives "unable to predict"; otherwise <= 0 gives restock NOW,
\* > 0 and <= 4 the day count with one decimal, and every other value below
\* 9999 the day estimate rounded to an integer.
C13_FourTiers ==
    IsDetail =>
        LET days == response.body.consumption_pattern.days_until_needed
        IN  IF RLe(FromInt(SentinelDays), days) THEN SaysUnable
            ELSE IF RLe(days, Zero) THEN SaysNow
            ELSE IF RLe(days, FromInt(4)) THEN SaysDays(1)
            ELSE SaysDays(0)

\* a product bought twice at the same moment: days_until_needed is the
\* sentinel and the explanation says that no prediction is possible
C13_Witness ==
    /\ IsDetail
    /\ response.body.consumption_pattern.days_until_needed = FromInt(SentinelDays)
    /\ SaysUnable

\* the extraction call: the stored rows its name filter matches
IsHistory == response.kind = "history"
MatchingRows ==
    {r \in BagToSet(receipt_items) :
        \/ request.product_name = None
        \/ ilike(r.product_name, request.product_name)}
RowsOf(name) == {r \in MatchingRows : r.product_name = name}
CountOf(rows) == BagCardinality([r \in rows |-> receipt_items[r]])

\* C14: get_product_purchase_history has one entry for every product with
\* at least min_purchases matching rows, holding all rows of the product as
\* events in ascending order of timestamp, and no entry for any other
\* product; when the filter matches no row the mapping is empty.
C14_ExtractionThreshold ==
    IsHistory =>
        LET entries == response.body
            names == {r.product_name : r \in MatchingRows}
            kept == {n \in names : CountOf(RowsOf(n)) >= request.min_purchases}
        IN  /\ {entries[i].name : i \in 1..Len(entries)} = kept
            /\ Len(entries) = Cardinality(kept)
            /\ MatchingRows = {} => entries = <<>>
            /\ \A i \in 1..Len(entries) :
                  LET purchases == entries[i].purchases
                      rows == RowsOf(entries[i].name)
                  IN  /\ Len(purchases) = CountOf(rows)
                      /\ \A e \in {PurchaseEvent(r) : r \in rows} :
                            Cardinality({k \in 1..Len(purchases) : purchases[k] = e})
                            = CountOf({r \in rows : PurchaseEvent(r) = e})
                      /\ \A k \in 1..(Len(purchases) - 1) :
                            purchases[k].date <= purchases[k + 1].date

\* with min_purchases = 2, a product with two rows of different dates is
\* returned and a product with one row has no entry
C14_Witness ==
    /\ IsHistory
    /\ request.min_purchases = 2
    /\ \E i \in 1..Len(response.body) :
          /\ Len(response.body[i].purchases) = 2
          /\ response.body[i].purchases[1].date < response.body[i].purchases[2].date
    /\ \E r \in MatchingRows :
          /\ CountOf(RowsOf(r.product_name)) = 1
          /\ \A i \in 1..Len(response.body) : response.body[i].name # r.product_name

\* the gaps between the consecutive events of the request
RequestGaps ==
    [k \in 1..(Len(request.purchases) - 1) |->
        FromInt(request.purchases[k + 1].date - request.purchases[k].date)]

\* C15: for two events or more, median_interval_days is the unweighted
\* median of the gaps between consecutive events, and a run on the same
\* events with any decay rate, at this or a later reference time, returns
\* the same median_interval_days.
C15_MedianIntervalUnweighted ==
    IsPattern /\ Len(request.purchases) >= 2 =>
        /\ response.body.median_interval_days = median(RequestGaps)
        /\ \A decay_rate \in DecayRates, now_ \in {now, now + ShoppingCycleDays} :
              calculate_consumption_pattern(Melk, request.purchases, decay_rate,
                                            now_).median_interval_days
              = response.body.median_interval_days

\* three gaps of a week and an outlier: the median interval is 7, while the
\* weighted average is the outlier
C15_Witness ==
    /\ IsPattern
    /\ RequestGaps = <<<<7, 1>>, <<7, 1>>, <<7, 1>>, FromInt(StartDay)>>
    /\ response.body.median_interval_days = <<7, 1>>
    /\ response.body.weighted_avg_interval_days = FromInt(StartDay)

\* C16: when the two or more events of a history carry the same timestamp,
\* calculate_consumption_pattern returns weighted_avg_interval_days =
\* median_interval_days = 0, consumption_rate_per_day = 0, days_until_needed
\* = 9999 and the confidence of recency factor 0.5.
C16_SameTimestamp ==
    /\ IsPattern
    /\ Len(request.purchases) >= 2
    /\ \A k \in 1..Len(request.purchases) :
          request.purchases[k].date = request.purchases[1].date
    => /\ response.body.weighted_avg_interval_days = Zero
       /\ response.body.median_interval_days = Zero
       /\ response.body.consumption_rate_per_day = Zero
       /\ response.body.days_until_needed = FromInt(SentinelDays)
       /\ response.body.confidence =
              round(RMul(RMul(RMin(One, Rat(Len(request.purchases), 10)), <<1, 2>>),
                         <<9, 10>>), 2)

\* four events of the same timestamp, estimated a week later
C16_Witness ==
    /\ IsPattern
    /\ Len(request.purchases) = 4
    /\ \A k \in 1..4 : request.purchases[k].date = StartDay
    /\ now > StartDay
    /\ response.body.days_until_needed = FromInt(SentinelDays)
    /\ response.body.confidence = <<9, 50>>

\* the parameters a route received, and whether one the claim names is
\* outside its range
IsRouteCall == request.op \in {"get_shopping_list", "get_product_consumption_detail"}
RequestDecayRate ==
    IF request.op = "get_shopping_list" THEN request.args.decay_rate
    ELSE request.decay_rate
OutOfRange ==
    \/ /\ request.op = "get_shopping_list"
       /\ \/ CallArgs.days_ahead < 1 \/ CallArgs.days_ahead > 30
          \/ RLt(CallArgs.min_confidence, Zero) \/ RLt(One, CallArgs.min_confidence)
    \/ RequestDecayRate \in {"0.0001", "0.2"}

\* C17: a shopping-list request with days_ahead outside 1..30 or
\* min_confidence outside [0, 1], and a shopping-list or product-detail
\* request with decay_rate outside [0.001, 0.1], is answered with a
\* validation error (422) and carries no recommendation.
C17_OutOfRangeRejected ==
    IsRouteCall /\ OutOfRange =>
        /\ response.kind = "validation_error"
        /\ response.status_code = 422
        /\ DOMAIN response = {"kind", "status_code"}

\* days_ahead = 31 on a store with receipts: rejected
C17_Witness ==
    /\ request.op = "get_shopping_list"
    /\ request.args.days_ahead = FromInt(31)
    /\ receipt_items # EmptyBag
    /\ response = ValidationError

\* C18: GET /analytics/recommendations/consumption-patterns is answered with
\* status 200 and the result of get_consumption_patterns for the requested
\* parameters: no products and total_products_analyzed 0 on an empty
\* database, and filter_criteria echoing min_purchases and max_avg_interval.
C18_ConsumptionPatternsServed ==
    request.op = "get_consumption_patterns" =>
        LET a == Parameters(request.args)
        IN  /\ response.status_code = 200
            /\ response.body = get_consumption_patterns(receipt_items, now, a.decay_rate,
                                   a.min_purchases, a.max_avg_interval,
                                   a.max_days_since_last)
            /\ receipt_items = EmptyBag =>
                  /\ response.body.products = <<>>
                  /\ response.body.total_products_analyzed = 0
            /\ response.body.filter_criteria.min_purchases = a.min_purchases
            /\ response.body.filter_criteria.max_avg_interval_days = a.max_avg_interval

\* the endpoints of the receipts router that use the remote API
RemoteEndpoints == {"list_receipts", "get_receipt", "get_receipt_pdf", "sync_receipts"}

\* the remote API is not called and the database is left as it is
NoCallNoChange ==
    /\ remote_calls' = remote_calls
    /\ receipts' = receipts
    /\ receipt_items' = receipt_items

\* C19: a request to list receipts, get a receipt, get its PDF or sync that
\* arrives while the client holds no access token is answered 401, and from
\* its arrival to its answer being returned no call of the remote API is
\* made and the database is not changed.
C19_NoTokenNoCall ==
    [][/\ (request = NoRequest /\ access_token = None
              /\ request'.op \in RemoteEndpoints) =>
              /\ response' = NotAuthenticated
              /\ response'.status_code = 401
              /\ sync' = NoSync
              /\ NoCallNoChange
       /\ (request.op \in RemoteEndpoints /\ response = NotAuthenticated) =>
              NoCallNoChange]_vars

\* a sync refused after a logout, the remote listing receipts of which some
\* are stored
C19_Witness ==
    /\ request.op = "sync_receipts"
    /\ access_token = None
    /\ response = NotAuthenticated
    /\ remote # <<>>
    /\ receipts # {}

\* the stored receipts at the end of taken with no new receipt between them;
\* a summary without an id is neither
RECURSIVE ConsecutiveExisting(_, _)
ConsecutiveExisting(taken, stored) ==
    IF taken = <<>> THEN 0
    ELSE LET last == taken[Len(taken)]
             before == SubSeq(taken, 1, Len(taken) - 1)
         IN  IF last = NoId THEN ConsecutiveExisting(before, stored)
             ELSE IF last \in stored THEN 1 + ConsecutiveExisting(before, stored)
             ELSE 0

\* the threshold was reached within the first k receipts the remote lists
ReachedWithin(k) ==
    \E j \in 1..k :
        ConsecutiveExisting(SubSeq(remote, 1, j), sync.existing_ids)
            >= sync.consecutive_existing_threshold

\* the place of receipt_id in the list of the remote
PlaceOf(receipt_id) == CHOOSE k \in 1..Len(remote) : remote[k] = receipt_id

\* C20: during a sync the counter is the number of stored receipts seen one
\* after the other with no new receipt between them, a new receipt setting
\* it to 0; an incremental sync has returned as soon as the counter reaches
\* the threshold, and has taken no receipt, fetched no page and fetched no
\* receipt details after that; a full sync never returns for this reason
\* and, unless a page fetch fails, ends with every receipt taken.
C20_IncrementalStop ==
    sync # NoSync =>
        /\ sync.seen = SubSeq(remote, 1, Len(sync.seen))
        /\ sync.consecutive_existing = ConsecutiveExisting(sync.seen, sync.existing_ids)
        /\ sync.stopped_early =>
              /\ ~sync.full_sync
              /\ sync.consecutive_existing >= sync.consecutive_existing_threshold
        /\ ~sync.full_sync =>
              /\ sync.consecutive_existing >= sync.consecutive_existing_threshold =>
                    sync.pc = "done" /\ sync.stopped_early
              /\ Len(sync.seen) > 0 => ~ReachedWithin(Len(sync.seen) - 1)
              /\ \A i \in 1..Len(remote_calls) :
                    /\ remote_calls[i].op = "get_receipts" =>
                          ~ReachedWithin(remote_calls[i].arg)
                    /\ remote_calls[i].op = "get_receipt" =>
                          ~ReachedWithin(PlaceOf(remote_calls[i].arg))
        /\ sync.full_sync =>
              /\ ~sync.stopped_early
              /\ (sync.pc = "done" /\ ~sync.result.batch_fetch_failed) =>
                    sync.seen = remote

\* an incremental sync that took a new receipt, then the stored ones up to
\* the threshold, and returned with receipts of the remote left
C20_Witness ==
    /\ sync # NoSync
    /\ ~sync.full_sync
    /\ sync.stopped_early
    /\ sync.result.synced_count > 0
    /\ sync.result.skipped_count = consecutive_existing_threshold
    /\ Len(sync.seen) < Len(remote)

-----------------------------------------------------------------------------
(* client.py: AHClient, its token file and a _graphql call in flight       *)

\* the access token of a client that holds none
NoToken == 0

\* _access_token and _refresh_token of a client, or the content of TOKEN_FILE
Tokens(access, refresh) ==
    [access_token |-> access, refresh_token |-> refresh]

\* __init__ and _load_tokens: the tokens of a client that is created now
load_tokens == IF token_file = None THEN Tokens(NoToken, FALSE) ELSE token_file

\* AHClient(settings): the singleton, created when there is none
AHClient == IF instance = None THEN load_tokens ELSE instance

\* the client the call in flight works on: the singleton it obtained, or the
\* object it still holds after a logout dropped the singleton
Self == IF in_flight.detached THEN in_flight.client ELSE instance

\* the access tokens that are held or were sent somewhere
TokensInUse ==
    {NoToken, load_tokens.access_token, AHClient.access_token}
        \cup (IF in_flight = NoRequest THEN {}
              ELSE {Self.access_token} \cup {in_flight.sent[i] : i \in DOMAIN in_flight.sent})

\* data.get("access_token") of a grant: a token not seen before
NextToken == CHOOSE t \in 1..(MaxTokens + 3) : t \notin TokensInUse

\* POST /receipts/auth: exchange_code on the singleton; a grant sets the
\* tokens and saves them
PostAuth(ok, refresh_token) ==
    /\ request = NoRequest
    /\ request' = [op |-> "authenticate"]
    /\ IF ok /\ NextToken <= MaxTokens
       THEN /\ instance' = Tokens(NextToken, refresh_token)
            /\ token_file' = Tokens(NextToken, refresh_token)
            /\ response' = [kind |-> "authenticated", status_code |-> 200]
       ELSE /\ instance' = AHClient
            /\ token_file' = token_file
            /\ response' = [kind |-> "error", status_code |-> 400]
    /\ UNCHANGED <<now, receipt_items, access_token, remote, receipts, remote_calls,
                   sync, product_cache, in_flight>>

\* the call in flight after AHClient._instance = None: it keeps its object
Detached(frame, client) ==
    IF frame = NoRequest THEN frame
    ELSE IF frame.detached THEN frame
    ELSE [frame EXCEPT !.detached = TRUE, !.client = client]

\* DELETE /receipts/auth: TOKEN_FILE is unlinked and the singleton dropped
DeleteAuth ==
    /\ request = NoRequest
    /\ request' = [op |-> "logout"]
    /\ token_file' = None
    /\ instance' = None
    /\ in_flight' = Detached(in_flight, instance)
    /\ response' = [kind |-> "logged out", status_code |-> 200]
    /\ UNCHANGED <<now, receipt_items, access_token, remote, receipts, remote_calls,
                   sync, product_cache>>

\* GET /receipts/auth/status
GetAuthStatus ==
    /\ request = NoRequest
    /\ request' = [op |-> "auth_status"]
    /\ instance' = AHClient
    /\ response' = [kind |-> "auth_status", status_code |-> 200,
                    authenticated |-> AHClient.access_token # NoToken]
    /\ UNCHANGED <<now, receipt_items, access_token, remote, receipts, remote_calls,
                   sync, product_cache, token_file, in_flight>>

\* a call of _graphql: what it has sent and received so far; refreshes counts
\* the refresh requests sent after a 401, granted is the last token a refresh
\* returned, no_refresh_token that a 401 met a client without refresh token
GraphqlFrame(pc, sent) ==
    [pc |-> pc, detached |-> FALSE, client |-> Tokens(NoToken, FALSE),
     sent |-> sent, statuses |-> <<>>, on_401 |-> FALSE, refreshes |-> 0,
     granted |-> NoToken, no_refresh_token |-> FALSE]

\* a route obtains the client, finds it authenticated and calls _graphql:
\* _ensure_valid_token sends a refresh request when the token is about to
\* expire (late) and there is a refresh token, else the query is posted
graphql(late) ==
    /\ in_flight = NoRequest
    /\ AHClient.access_token # NoToken
    /\ instance' = AHClient
    /\ in_flight' = IF late /\ AHClient.refresh_token
                    THEN GraphqlFrame("refresh_token", <<>>)
                    ELSE GraphqlFrame("post", <<AHClient.access_token>>)
    /\ UNCHANGED <<now, receipt_items, request, response, access_token, remote, receipts,
                   remote_calls, sync, product_cache, token_file>>

\* the tokens of the client of the call in flight become tokens
SetSelf(frame, tokens) ==
    /\ instance' = IF in_flight.detached THEN instance ELSE tokens
    /\ in_flight' = IF in_flight.detached THEN [frame EXCEPT !.client = tokens] ELSE frame

\* the answer to the refresh request: refresh_token raises, or sets and
\* saves the tokens it is granted, after which the query is posted
RefreshResponse(ok, refresh_token) ==
    /\ in_flight # NoRequest
    /\ in_flight.pc = "refresh_token"
    /\ IF ok /\ NextToken <= MaxTokens
       THEN /\ SetSelf([in_flight EXCEPT !.pc = "post",
                                         !.granted = NextToken,
                                         !.sent = Append(@, NextToken)],
                       Tokens(NextToken, refresh_token))
            /\ token_file' = Tokens(NextToken, refresh_token)
       ELSE /\ in_flight' = [in_flight EXCEPT !.pc = "raised"]
            /\ UNCHANGED <<instance, token_file>>
    /\ UNCHANGED <<now, receipt_items, request, response, access_token, remote, receipts,
                   remote_calls, sync, product_cache>>

\* a _graphql whose answers are all treated as the first is
Received_loop(frame, client, status_code) ==
    LET answered == [frame EXCEPT !.statuses = Append(@, status_code)]
    IN  IF status_code = 401 /\ client.refresh_token
        THEN [answered EXCEPT !.pc = "refresh_token", !.on_401 = TRUE,
                              !.refreshes = @ + 1]
        ELSE IF status_code = 200 THEN [answered EXCEPT !.pc = "returned"]
        ELSE [answered EXCEPT !.pc = "raised",
                              !.no_refresh_token = status_code = 401]

\* _graphql after an answer to the query: a first 401 of a client with a
\* refresh token sends a refresh request; otherwise raise_for_status
Received(frame, client, status_code) ==
    LET answered == [frame EXCEPT !.statuses = Append(@, status_code)]
    IN  IF ~frame.on_401 /\ status_code = 401 /\ client.refresh_token
        THEN [answered EXCEPT !.pc = "refresh_token", !.on_401 = TRUE,
                              !.refreshes = @ + 1]
        ELSE IF status_code = 200 THEN [answered EXCEPT !.pc = "returned"]
        ELSE [answered EXCEPT !.pc = "raised",
                              !.no_refresh_token = ~frame.on_401 /\ status_code = 401]

\* the answer of the remote to the query posted
PostResponse(status_code) ==
    /\ in_flight # NoRequest
    /\ in_flight.pc = "post"
    /\ in_flight' = Received(in_flight, Self, status_code)
    /\ UNCHANGED <<now, receipt_items, request, response, access_token, remote, receipts,
                   remote_calls, sync, product_cache, token_file, instance>>

\* _graphql has returned or raised
GraphqlDone ==
    /\ in_flight # NoRequest
    /\ in_flight.pc \in {"returned", "raised"}
    /\ in_flight' = NoRequest
    /\ UNCHANGED <<now, receipt_items, request, response, access_token, remote, receipts,
                   remote_calls, sync, product_cache, token_file, instance>>

\* the status codes of the remote
StatusCodes == {200, 401, 500}

\* the auth routes next to one call of _graphql in flight
ClientNext ==
    \/ \E ok \in BOOLEAN, refresh_token \in BOOLEAN : PostAuth(ok, refresh_token)
    \/ DeleteAuth
    \/ GetAuthStatus
    \/ \E late \in BOOLEAN : graphql(late)
    \/ \E ok \in BOOLEAN, refresh_token \in BOOLEAN : RefreshResponse(ok, refresh_token)
    \/ \E status_code \in StatusCodes : PostResponse(status_code)
    \/ GraphqlDone
    \/ Return

ClientSpec == Init /\ [][ClientNext]_vars

-----------------------------------------------------------------------------
(* the claims of the products router, the client and the sync service       *)

\* a request of GET /products/{product_id} arrives and is answered
IsGetProduct == request = NoRequest /\ request'.op = "get_product"

\* the cache holds an entry for the requested id that expires later than now
ValidEntry ==
    \E c \in product_cache :
        /\ c.product_id = request'.product_id
        /\ c.expires_at # None
        /\ c.expires_at[1] > now

\* the answer is the entry of the cache and the remote was not called
ServedFromCache ==
    /\ response'.kind = "product"
    /\ response'.source = "cache"
    /\ response'.body \in product_cache
    /\ response'.body.product_id = request'.product_id
    /\ remote_calls' = remote_calls
    /\ product_cache' = product_cache

\* the remote was called once for the requested id
CalledRemote == remote_calls' = Append(remote_calls, Call("get_product", request'.product_id))

\* the rows of the cache for product_id are one row that expires in 30 days
FreshEntry(product_id) ==
    {c \in product_cache' : c.product_id = product_id}
        = {ProductCache(product_id, now, <<now + CACHE_DURATION_DAYS>>)}

\* C21: GET /products/{product_id} answers from the cache without a call of
\* the remote API exactly when refresh is false and the cache holds an entry
\* for that id that expires later than now; otherwise it calls the remote
\* API and, when that returns a product, answers with it and leaves the
\* cache entry for that id as one row with expires_at = now + 30 days.
C21_CacheOrFetch ==
    [][IsGetProduct =>
          /\ ServedFromCache <=> (~request'.refresh /\ ValidEntry)
          /\ ~ServedFromCache =>
                /\ CalledRemote
                /\ response'.status_code = 200 =>
                      /\ response'.source = "remote"
                      /\ FreshEntry(request'.product_id)]_vars

\* the entries of cache that expire later than now
ValidEntries(cache) == {c \in cache : c.expires_at # None /\ c.expires_at[1] > now}

\* the expired count GET /products/cache/stats would report for cache
ExpiredOf(cache) == Cardinality(cache) - Cardinality(ValidEntries(cache))

\* the statistics served count the valid entries and split the total
StatsConsistent ==
    response.kind = "cache_stats" =>
        /\ response.total_cached = Cardinality(product_cache)
        /\ response.valid = Cardinality(ValidEntries(product_cache))
        /\ response.total_cached = response.valid + response.expired

\* DELETE /products/cache/expired leaves the valid entries and nothing else
\* and reports how many entries it removed
ClearedExactly ==
    (request = NoRequest /\ request'.op = "clear_expired_cache") =>
        /\ product_cache' = ValidEntries(product_cache)
        /\ response'.deleted = Cardinality(product_cache \ product_cache')
        /\ ExpiredOf(product_cache') = 0

\* C22: the cache statistics satisfy total_cached = valid + expired with
\* valid the number of entries whose expires_at is later than now, and
\* DELETE /products/cache/expired removes exactly the entries that are not
\* valid, keeps the valid ones and reports the number removed, so that the
\* expired count is 0 right after it.
C22_StatsAndClear == [](StatsConsistent) /\ [][ClearedExactly]_vars

\* C22: a clear-out has removed an entry and kept one
C22_Witness ==
    /\ request.op = "clear_expired_cache"
    /\ response.kind = "cleared"
    /\ response.deleted = 1
    /\ Cardinality(product_cache) = 1

\* C22: statistics served over a cache with a valid and an undated entry
C22_StatsWitness ==
    /\ response.kind = "cache_stats"
    /\ response.valid = 1
    /\ response.expired = 1
    /\ \E c \in product_cache : c.expires_at = None

\* the token file is absent and a client obtained now holds no access token
LoggedOut == token_file = None /\ AHClient.access_token = NoToken

\* DELETE /receipts/auth is answered
IsLogout == request = NoRequest /\ request'.op = "logout"

\* exchange_code succeeds
IsExchange ==
    /\ request = NoRequest
    /\ request'.op = "authenticate"
    /\ response'.status_code = 200

\* C23: after DELETE /receipts/auth the token file is absent and a newly
\* obtained AHClient is not authenticated, and both stay so until the next
\* successful exchange_code, also while a call that obtained the client
\* before the logout is in flight and refreshes its token.
C23_LoggedOutUntilExchange ==
    [][/\ IsLogout => LoggedOut'
       /\ (LoggedOut /\ ~IsExchange) => LoggedOut']_vars

\* C30: a call of _graphql posts the query at most twice; the second post
\* follows a 401 to the first, answered by a client with a refresh token
\* with one refresh, and carries the access token that refresh was granted;
\* a 401 to the second post, and a 401 to a client without refresh token,
\* is raised without another post.
C30_AtMostTwoPosts ==
    in_flight # NoRequest =>
        /\ Len(in_flight.sent) <= 2
        /\ in_flight.refreshes <= 1
        /\ in_flight.on_401 <=> in_flight.refreshes = 1
        /\ in_flight.on_401 => in_flight.statuses[1] = 401
        /\ (in_flight.on_401 /\ in_flight.pc \in {"post", "returned"}) =>
              /\ Len(in_flight.sent) = 2
              /\ in_flight.sent[2] = in_flight.granted
              /\ in_flight.sent[2] # in_flight.sent[1]
        /\ Len(in_flight.sent) = 2 => in_flight.on_401
        /\ (Len(in_flight.statuses) = 2 /\ in_flight.statuses[2] # 200) =>
              in_flight.pc = "raised"
        /\ in_flight.no_refresh_token =>
              /\ in_flight.pc = "raised"
              /\ in_flight.statuses = <<401>>
              /\ Len(in_flight.sent) = 1

\* C30: a retry with the refreshed token was answered with another 401
C30_Witness ==
    /\ in_flight # NoRequest
    /\ in_flight.statuses = <<401, 401>>
    /\ in_flight.pc = "raised"
    /\ Len(in_flight.sent) = 2

\* C30: a 401 to a client without refresh token was raised
C30_NoRefreshTokenWitness ==
    /\ in_flight # NoRequest
    /\ in_flight.no_refresh_token

\* the distinct product names of the purchase history
DistinctNames == {r.product_name : r \in BagToSet(receipt_items)}

\* C24: items_analyzed (total_products_analyzed) and items_filtered_out
\* (products_filtered_out) add up to the number of distinct product names of
\* the purchase history; items_analyzed counts every product that passed the
\* inclusion filter, also those left out for low confidence or LATER
\* urgency, so needed_items and might_need_soon together hold at most
\* items_analyzed items.
C24_CountsAddUp ==
    IsShoppingList =>
        /\ response.body.items_analyzed + response.body.items_filtered_out
               = Cardinality(DistinctNames)
        /\ response.body.items_analyzed = Cardinality(PassedFilter)
        /\ Len(response.body.needed_items) + Len(response.body.might_need_soon)
               <= response.body.items_analyzed

\* C24: of two products one is filtered out and the other, analyzed, is in
\* neither list
C24_Witness ==
    /\ IsShoppingList
    /\ Cardinality(DistinctNames) = 2
    /\ response.body.items_analyzed = 1
    /\ response.body.items_filtered_out = 1
    /\ response.body.needed_items = <<>>
    /\ response.body.might_need_soon = <<>>

\* the product is consumed and now is not before its last purchase
ConsumedUpToNow ==
    /\ IsPattern
    /\ RLt(Zero, response.body.consumption_rate_per_day)
    /\ RLe(Zero, response.body.days_since_last_purchase)

C25_CapWitness ==
    /\ ConsumedUpToNow
    /\ response.body.days_until_needed = FromInt(SentinelDays)
    /\ RLt(FromInt(SentinelDays), response.body.weighted_avg_interval_days)

\* the lists that hold the purchases of s in another order
Reordered(s) ==
    {[i \in 1..Len(s) |-> s[f[i]]] : f \in Permutations(1..Len(s))}

\* C26: calculate_consumption_pattern returns the same pattern, in every
\* field, for every order of the same purchases, also when purchases of the
\* same moment differ in product_id or quantity.
C26_OrderInvariant ==
    IsPattern =>
        \A purchases \in Reordered(request.purchases) :
            calculate_consumption_pattern(Melk, purchases, request.decay_rate, now)
                = response.body

\* the for loop has come to the end of the page
EndOfPage == sync.pc = "for" /\ sync.receipts_page = <<>>

\* a page is fetched: the fetch fails and one batch_fetch error ends the
\* sync, or the page is empty and ends it, or its receipts are taken
PageFetched ==
    \/ /\ sync'.pc = "done"
       /\ sync'.result.errors = Append(sync.result.errors, batch_fetch)
       /\ sync'.result.error_count = sync.result.error_count + 1
    \/ /\ sync'.pc = "done"
       /\ sync'.result = sync.result
    \/ /\ sync'.pc = "for"
       /\ sync'.receipts_page # <<>>
       /\ sync'.offset = sync.offset

\* every step of the loop ends it or brings it closer to its end
LoopProgress ==
    /\ sync.pc = "fetch_page" => PageFetched
    /\ (sync.pc = "for" /\ ~EndOfPage) =>
          /\ Len(sync'.receipts_page) = Len(sync.receipts_page) - 1
          /\ sync'.pc \in {"for", "fetch_details", "done"}
    /\ sync.pc = "fetch_details" =>
          /\ sync'.pc = "for"
          /\ sync'.receipts_page = sync.receipts_page
    /\ EndOfPage =>
          /\ sync'.offset = sync.offset + sync.batch_size
          /\ sync'.pc = IF sync'.offset >= sync.total_elements THEN "done"
                        ELSE "fetch_page"

\* C27: sync_receipts terminates on every finite listing with a batch size
\* of at least 1: every step ends the loop (an empty page, a failed page
\* fetch, which adds one batch_fetch error and is not retried, or the
\* incremental stop) or moves on in the page, and the end of a page raises
\* the offset by batch_size and ends the loop once the offset has reached
\* totalElements.
C27_SyncTerminates ==
    /\ (sync.pc \notin {"idle", "done"}) ~> (sync.pc = "done")
    /\ [][LoopProgress]_vars

\* C27: a sync has ended after its third page
C27_Witness ==
    /\ sync.pc = "done"
    /\ sync.batch_size = 2
    /\ sync.offset = 6
    /\ sync.offset >= sync.total_elements
    /\ ~sync.stopped_early

\* the ids a list holds
Ids(s) == {s[i] : i \in DOMAIN s}

\* the summaries with an id the sync has visited
Visited == Ids(sync.seen) \ {NoId}

\* the receipts the sync has recorded an error for
Errored == Ids(sync.result.errors) \ {batch_fetch}

\* the errors recorded for pages
BatchErrors == {i \in DOMAIN sync.result.errors : sync.result.errors[i] = batch_fetch}

\* C28: a SyncResult always has synced_count = len(synced_receipts) and
\* error_count = len(errors); when sync_receipts returns, every visited
\* summary with an id is counted in exactly one of synced, skipped and
\* error, a failed page fetch adding one more error; a receipt whose id was
\* stored when the sync began is skipped and neither fetched nor synced.
C28_ResultAccounts ==
    sync # NoSync =>
        LET result == sync.result
            synced == Ids(result.synced_receipts)
            skipped == Visited \cap sync.existing_ids
        IN  /\ result.synced_count = Len(result.synced_receipts)
            /\ result.error_count = Len(result.errors)
            /\ sync.pc = "done" =>
                  /\ Visited = synced \cup skipped \cup Errored
                  /\ synced \cap skipped = {}
                  /\ synced \cap Errored = {}
                  /\ skipped \cap Errored = {}
                  /\ result.synced_count = Cardinality(synced)
                  /\ result.skipped_count = Cardinality(skipped)
                  /\ result.error_count = Cardinality(Errored) + Cardinality(BatchErrors)
                  /\ Cardinality(BatchErrors) <= 1
            /\ \A receipt_id \in sync.existing_ids :
                  /\ receipt_id \notin synced
                  /\ receipt_id \notin Errored
                  /\ \A i \in DOMAIN remote_calls :
                        remote_calls[i] # Call("get_receipt", receipt_id)

\* C28: a sync has returned with a receipt synced, one skipped, one failed
\* and a page that could not be fetched, having met a summary without id
C28_Witness ==
    /\ sync.pc = "done"
    /\ sync.result.synced_count = 1
    /\ sync.result.skipped_count = 1
    /\ sync.result.error_count = 2
    /\ BatchErrors # {}
    /\ NoId \in Ids(sync.seen)

\* the fetch of the details, the mapping or the commit fails
IsFailure == sync.pc = "fetch_details" /\ sync'.outcome # "stored"

\* a failure stores nothing, is recorded once and lets the sync go on
FailureLeavesNothing ==
    IsFailure =>
        /\ receipts' = receipts
        /\ receipt_items' = receipt_items
        /\ sync'.session = {}
        /\ sync'.result.errors = Append(sync.result.errors, sync.receipt_id)
        /\ sync'.result.error_count = sync.result.error_count + 1
        /\ sync'.result.synced_count = sync.result.synced_count
        /\ sync'.result.synced_receipts = sync.result.synced_receipts
        /\ sync'.pc = "for"

\* the rows stored are those of the receipts stored, and no receipt the
\* sync has recorded an error for is among them
StoredWhole ==
    /\ {r.receipt_id : r \in BagToSet(receipt_items)} = receipts
    /\ sync # NoSync => Errored \cap receipts = {}

\* C29: a receipt is stored all or nothing: when the fetch of its details,
\* the mapping or the commit fails, neither the receipt nor its rows are
\* stored, one error is recorded, synced_count stays, the receipts stored
\* before stay, and the sync goes on with the next summary.
C29_AllOrNothing == [](StoredWhole) /\ [][FailureLeavesNothing]_vars

\* C29: a commit has failed after another receipt was stored
C29_Witness ==
    /\ sync # NoSync
    /\ sync.outcome = "commit_error"
    /\ sync.result.synced_count = 1
    /\ sync.receipt_id \notin receipts
    /\ sync.result.synced_receipts[1] \in receipts

\* C29: a receipt was stored after the failure of another
C29_GoesOnWitness ==
    /\ sync # NoSync
    /\ sync.outcome = "stored"
    /\ sync.result.errors # <<>>
    /\ sync.result.errors[1] < sync.receipt_id
    /\ sync.receipt_id \in receipts

=============================================================================
